---- MODULE Spec2Model ----
(***************************************************************************)
(* A model of ccAutomator: the canvas stabilization wait and the           *)
(* fingerprint carried between waits, the print search with its retries,   *)
(* the print reconciliation filter and selection, the art asset pipeline,  *)
(* the capture loop with its overwrite policy, the text-field edits, the   *)
(* output names and the project file editor.  Each component has its own   *)
(* specification; the variables of the components a specification does     *)
(* not exercise keep their initial values.                                 *)
(***************************************************************************)
EXTENDS Integers, Sequences, FiniteSets

\* Python's None where a fingerprint is expected, and where a string is expected.
None == <<>>
NoneStr == "None"

\* ------------------------------------------------------------------------
\* Bounds of the model
\* ------------------------------------------------------------------------
NumHashes == 2          \* distinct readable canvas fingerprints
TimeoutPolls == 5       \* polls that fit in STABILIZE_TIMEOUT (timeout / interval)
MaxPrints == 3          \* options of the print dropdown that match the card
MaxPrepCalls == 2       \* prepare calls for one (card, set, number)
MaxCards == 2           \* cards in the input file
MaxCapture == 2         \* prints of one card offered by the print dropdown
MaxTime == 2            \* timestamps are 0..MaxTime, one unit = one hour
MaxTextLen == 3         \* characters in the text of a dropdown option
MaxSelPrints == 2       \* prints the UI search hands to the selection
MaxResults == 2         \* records one external query returns
MaxFieldLen == 2        \* pieces (tags, characters) of a field's raw text
MaxEdits == 2           \* applications of one text edit to a field
MaxNameLen == 3         \* characters of a string given to generate_safe_filename
MaxFrames == 2          \* frames of a card in a project file

\* ------------------------------------------------------------------------
\* Program constants
\* ------------------------------------------------------------------------
STABILITY_CHECKS == 3

\* hash.toString() of a readable canvas
Hashes == { <<i>> : i \in 1..NumHashes }
HashOrNone == Hashes \cup {None}

VARIABLES
    \* --- CanvasMixin._wait_for_canvas_stabilization ---
    s_pc,              \* "idle" | "entry" | "loop" | "done"
    prior,             \* the initial_hash argument as the caller passed it
    wait_for_change,   \* the wait_for_change argument
    initial_hash,      \* the local initial_hash (sampled at entry when the argument is None)
    entry_hash,        \* what the canvas shows when the wait is entered (None = unreadable)
    last_hash,
    stable_count,
    elapsed,           \* ticks of STABILITY_INTERVAL slept since start_time
    samples,           \* every current_hash read in the loop, in order (None = unreadable)
    s_result,          \* the returned value
    \* --- PrintMixin._get_and_filter_prints (filter stage) ---
    r_pc,              \* "idle" | "called" | "returned"
    all_exact_matches, \* the prints read from the dropdown
    r_cfg,             \* the six set filters of the automator
    r_card_basic,      \* card_name in BASIC_LAND_NAMES
    r_mode,            \* "normal" | "priming" | "token"
    r_prints,          \* returned list
    r_fallback,        \* returned flag
    \* --- ImageMixin._prepare_art_asset and the store it reads and writes ---
    a_pc,              \* "idle" | "lookup" | "probe" | "fetch" | "upscale" | "resolve" | "returned"
    a_cfg,             \* image_server_url, download_dir, ilaria_url (set or not), upscale_art
    server_files,      \* art assets on the image server, as <<sub_dir, extension>>
    local_files,       \* art assets under download_dir, as <<sub_dir, extension>>
    call_no,           \* prepare calls started for the one (card, set, number)
    a_log,             \* per call: what it invoked, persisted and returned
    original_image_actual_ext,
    hosted_original_art_url,
    hosted_upscaled_art_url,
    original_art_bytes_for_pipeline,  \* TRUE when the bytes are held in memory
    \* --- main()'s card loop and CardConjurerAutomator.process_and_capture_card ---
    o_pc,              \* position in main / process_and_capture_card
    o_cfg,             \* the automator's configuration
    cards_to_process,  \* number of cards in the input file
    card_i,            \* cards for which process_and_capture_card has been called
    all_cc_prints,     \* number of prints _get_and_filter_prints returned
    include_filter_failed_cc,
    prints_to_capture, \* number of prints selected for capture
    print_i,           \* position in the capture loop
    output_present,    \* a file of the print's output name is at the destination
    exists,            \* check_server_file_details: the output file exists
    last_modified,     \* check_server_file_details: its Last-Modified, or None
    should_skip,
    persisted,         \* "none" | "saved" | "failed": the current print's persist step
    data_url,          \* what _get_canvas_data_url returned for the current print
    steps,             \* the search of the current card, then the steps of the current print
    \* --- the exact-match guard on one option of the print dropdown ---
    g_pc,              \* "idle" | "option" | "done"
    g_card_name,       \* the requested card name, as a sequence of characters
    g_option_text,     \* option.text
    g_appended,        \* the option was appended to all_exact_matches
    \* --- the print selection of process_and_capture_card, on lists of prints ---
    sel_pc,            \* "idle" | "mode" | "fallback_query" | "match" | "matched" |
                       \* "final_check" | "capture_loop" | "returned" | "raised"
    sel_cfg,           \* the strategies and whether set filters are configured
    sel_cc_prints,     \* all_cc_prints: the prints _get_and_filter_prints returned
    sel_failed_cc,     \* include_filter_failed_cc
    scryfall_queries,  \* the queries sent to search_cards, in order
    scryfall_results,  \* the records of the last query
    selection_strategy,
    matched_prints,
    sel_capture,       \* prints_to_capture
    \* --- _apply_text_mods on the raw text of one field ---
    t_pc,              \* "idle" | "editing"
    t_args,            \* font_size, kerning, bold of the edit
    current_text,      \* the value of the text editor
    t_applied,         \* how often the edit has been applied
    t_first,           \* the text after the first application
    \* --- generate_safe_filename and _generate_final_filename ---
    n_pc,              \* "idle" | "normalized" | "named"
    value,             \* the argument of generate_safe_filename
    safe,              \* generate_safe_filename(value)
    safe_again,        \* generate_safe_filename(safe)
    print_data,        \* card_name, set_name, collector_number of a print
    filename,          \* _generate_final_filename(card_name, set_name, collector_number)
    \* --- the print search of PrintMixin._get_and_filter_prints ---
    q_pc,              \* "idle" | "loop" | "filter" | "returned" | "raised"
    attempt,           \* the loop variable of `for attempt in range(max_retries)`
    q_log,             \* the outcome of every attempt made, in order
    q_matches,         \* all_exact_matches of the last attempt
    q_ret,             \* the value returned from inside the loop, or None
    \* --- CcFileEditor.apply_edits on one card of a project file ---
    f_pc,              \* "idle" | "loaded" | "edited" | "edited_twice"
    f_card,            \* the card as loaded: its frames and one text field
    f_args,            \* the arguments of apply_edits
    f_once,            \* the card after apply_edits
    f_twice,            \* the card after a second apply_edits with the same arguments
    \* --- the fingerprint the automator carries from one wait to the next ---
    current_canvas_hash,  \* self.current_canvas_hash
    last_wait          \* "none" | "stable" | "timeout": how the last finished wait ended

stabVars == <<s_pc, prior, wait_for_change, initial_hash, entry_hash, last_hash, stable_count,
              elapsed, samples, s_result>>
recVars == <<r_pc, all_exact_matches, r_cfg, r_card_basic, r_mode, r_prints, r_fallback>>
prepVars == <<a_pc, a_cfg, server_files, local_files, call_no, a_log,
              original_image_actual_ext, hosted_original_art_url, hosted_upscaled_art_url,
              original_art_bytes_for_pipeline>>
runVars == <<o_pc, o_cfg, cards_to_process, card_i, all_cc_prints, include_filter_failed_cc,
             prints_to_capture, print_i, output_present, exists, last_modified, should_skip,
             persisted, data_url, steps>>
guardVars == <<g_pc, g_card_name, g_option_text, g_appended>>
selVars == <<sel_pc, sel_cfg, sel_cc_prints, sel_failed_cc, scryfall_queries, scryfall_results,
             selection_strategy, matched_prints, sel_capture>>
textVars == <<t_pc, t_args, current_text, t_applied, t_first>>
nameVars == <<n_pc, value, safe, safe_again, print_data, filename>>
searchVars == <<q_pc, attempt, q_log, q_matches, q_ret>>
fileVars == <<f_pc, f_card, f_args, f_once, f_twice>>
carryVars == <<current_canvas_hash, last_wait>>
vars == <<stabVars, recVars, prepVars, runVars, guardVars, selVars, textVars, nameVars,
          searchVars, fileVars, carryVars>>

\* ========================================================================
\* Stabilization detector
\* ========================================================================

\* if initial_hash is None and wait_for_change: initial_hash, _ = self._get_canvas_hash()
EntryInitial_NoSample(init, wfc, sample) == init
EntryInitial(init, wfc, sample) ==
    IF init = None /\ wfc THEN sample ELSE init

\* if wait_for_change and initial_hash and current_hash == initial_hash: sleep; continue
Gated_Never(wfc, init, cur) == FALSE
Gated_Always(wfc, init, cur) == init # None /\ cur = init
Gated(wfc, init, cur) == wfc /\ init # None /\ cur = init

\* if current_hash == last_hash: stable_count += 1  else: last_hash = current_hash; stable_count = 1
NextCount(last, count, cur) == IF cur = last THEN count + 1 ELSE 1

\* while time.time() - start_time < self.STABILIZE_TIMEOUT
LoopCond_Forever(e) == TRUE
LoopCond(e) == e < TimeoutPolls

\* time.sleep(self.STABILITY_INTERVAL)
Sleep(e) == e + 1

StabInit ==
    /\ s_pc = "idle"
    /\ prior = None
    /\ wait_for_change = TRUE
    /\ initial_hash = None
    /\ entry_hash = None
    /\ last_hash = None
    /\ stable_count = 0
    /\ elapsed = 0
    /\ samples = <<>>
    /\ s_result = None

\* A caller invokes _wait_for_canvas_stabilization(initial_hash, wait_for_change):
\* start_time = time.time(); last_hash, stable_count = None, 0
StabCall ==
    /\ s_pc = "idle"
    /\ \E p \in HashOrNone, w \in BOOLEAN :
          /\ prior' = p
          /\ wait_for_change' = w
          /\ initial_hash' = p
    /\ entry_hash' = None
    /\ last_hash' = None
    /\ stable_count' = 0
    /\ elapsed' = 0
    /\ samples' = <<>>
    /\ s_result' = None
    /\ s_pc' = "entry"
    /\ UNCHANGED <<recVars, prepVars, runVars, guardVars, selVars,
                   textVars, nameVars, searchVars, fileVars, carryVars>>

\* The sampling of a missing initial hash before the loop.
StabEntry ==
    /\ s_pc = "entry"
    /\ \E h \in HashOrNone :
          /\ entry_hash' = h
          /\ initial_hash' = EntryInitial(initial_hash, wait_for_change, h)
    /\ s_pc' = "loop"
    /\ UNCHANGED <<prior, wait_for_change, last_hash, stable_count, elapsed, samples, s_result>>
    /\ UNCHANGED <<recVars, prepVars, runVars, guardVars, selVars,
                   textVars, nameVars, searchVars, fileVars, carryVars>>

\* One iteration of the polling loop; h is what _get_canvas_hash returns.
StabPoll ==
    /\ s_pc = "loop"
    /\ LoopCond(elapsed)
    /\ \E h \in HashOrNone :
          /\ samples' = Append(samples, h)
          /\ IF h = None
                THEN /\ elapsed' = Sleep(elapsed)
                     /\ UNCHANGED <<last_hash, stable_count, s_result, s_pc>>
                ELSE IF Gated(wait_for_change, initial_hash, h)
                THEN /\ elapsed' = Sleep(elapsed)
                     /\ UNCHANGED <<last_hash, stable_count, s_result, s_pc>>
                ELSE /\ last_hash' = h
                     /\ stable_count' = NextCount(last_hash, stable_count, h)
                     /\ IF stable_count' >= STABILITY_CHECKS
                           THEN /\ s_result' = h
                                /\ s_pc' = "done"
                                /\ UNCHANGED elapsed
                           ELSE /\ elapsed' = Sleep(elapsed)
                                /\ UNCHANGED <<s_result, s_pc>>
    /\ UNCHANGED <<prior, wait_for_change, initial_hash, entry_hash>>
    /\ UNCHANGED <<recVars, prepVars, runVars, guardVars, selVars,
                   textVars, nameVars, searchVars, fileVars, carryVars>>

\* The loop condition fails: the warning is printed and None returned.
StabTimeout ==
    /\ s_pc = "loop"
    /\ ~LoopCond(elapsed)
    /\ s_result' = None
    /\ s_pc' = "done"
    /\ UNCHANGED <<prior, wait_for_change, initial_hash, entry_hash, last_hash, stable_count,
                   elapsed, samples>>
    /\ UNCHANGED <<recVars, prepVars, runVars, guardVars, selVars,
                   textVars, nameVars, searchVars, fileVars, carryVars>>

\* The caller takes the returned value; the detector is ready for the next wait.
StabReturn ==
    /\ s_pc = "done"
    /\ s_pc' = "idle"
    /\ UNCHANGED <<prior, wait_for_change, initial_hash, entry_hash, last_hash, stable_count,
                   elapsed, samples, s_result>>
    /\ UNCHANGED <<recVars, prepVars, runVars, guardVars, selVars,
                   textVars, nameVars, searchVars, fileVars, carryVars>>

\* ========================================================================
\* Print reconciliation: the include / exclude filter
\* ========================================================================

SetNames == {"LEA", "4ED"}
IncludeUniverse == {"lea", "xyz"}
ExcludeUniverse == {"lea", "4ed"}

\* str.lower() on the set codes of the model
Lower(s) ==
    CASE s = "LEA" -> "lea"
      [] s = "4ED" -> "4ed"
      [] OTHER -> s

\* match_data: index is the option's value, set_name / collector_number come from
\* one regular expression and are both None or both set.
CollectorNumbers == <<"1", "2", "3", "4", "5", "6">>
MatchData(i, s) == [index |-> i, set_name |-> s,
                    collector_number |-> IF s = NoneStr THEN NoneStr ELSE CollectorNumbers[i]]

PrintLists ==
    UNION { { [i \in 1..n |-> MatchData(i, f[i])] : f \in [1..n -> SetNames \cup {NoneStr}] }
            : n \in 1..MaxPrints }

NoSets == [include_sets |-> {}, exclude_sets |-> {},
           spells_include_sets |-> {}, spells_exclude_sets |-> {},
           basic_land_include_sets |-> {}, basic_land_exclude_sets |-> {}]

\* The filters main() accepts: legacy and granular filters are never mixed.
Configs ==
    { [NoSets EXCEPT !.include_sets = inc, !.exclude_sets = exc]
        : inc \in SUBSET IncludeUniverse, exc \in SUBSET ExcludeUniverse }
    \cup
    { [NoSets EXCEPT !.spells_include_sets = inc, !.spells_exclude_sets = exc]
        : inc \in SUBSET IncludeUniverse, exc \in SUBSET ExcludeUniverse }
    \cup
    { [NoSets EXCEPT !.basic_land_include_sets = inc, !.basic_land_exclude_sets = exc]
        : inc \in SUBSET IncludeUniverse, exc \in SUBSET ExcludeUniverse }

\* Determine which filters to use (legacy mode, else granular by card kind).
CurrentIncludeSets(cfg, basic) ==
    IF cfg.include_sets # {} \/ cfg.exclude_sets # {} THEN cfg.include_sets
    ELSE IF basic THEN cfg.basic_land_include_sets ELSE cfg.spells_include_sets

CurrentExcludeSets(cfg, basic) ==
    IF cfg.include_sets # {} \/ cfg.exclude_sets # {} THEN cfg.exclude_sets
    ELSE IF basic THEN cfg.basic_land_exclude_sets ELSE cfg.spells_exclude_sets

\* 1. Apply the blacklist first.
PrintsAfterExclude_CaseSensitive(matches, exc) ==
    LET Keep(p) == ~(p.set_name # NoneStr /\ p.set_name \in exc)
    IN  IF exc # {} THEN SelectSeq(matches, Keep) ELSE matches
PrintsAfterExclude(matches, exc) ==
    LET Keep(p) == ~(p.set_name # NoneStr /\ Lower(p.set_name) \in exc)
    IN  IF exc # {} THEN SelectSeq(matches, Keep) ELSE matches

\* 2. Apply the whitelist to the already-excluded list.
FinalFilteredPrints(after, inc) ==
    LET Keep(p) == p.set_name # NoneStr /\ Lower(p.set_name) \in inc
    IN  IF inc # {} THEN SelectSeq(after, Keep) ELSE after

\* filter_failed = bool(current_include_sets and not final_filtered_prints)
FilterFailed_WhenIncludeSet(inc, final) == inc # {}
FilterFailed(inc, final) == inc # {} /\ final = <<>>

\* The value _get_and_filter_prints returns once the dropdown has been read.
FilterPrints(matches, cfg, basic, mode) ==
    LET inc == CurrentIncludeSets(cfg, basic)
        exc == CurrentExcludeSets(cfg, basic)
        after == PrintsAfterExclude(matches, exc)
        final == FinalFilteredPrints(after, inc)
    IN  IF mode \in {"priming", "token"}
            THEN [prints |-> matches, fallback |-> FALSE]
        ELSE IF FilterFailed(inc, final)
            THEN [prints |-> after, fallback |-> TRUE]
        ELSE [prints |-> final, fallback |-> FALSE]

RecInit ==
    /\ r_pc = "idle"
    /\ all_exact_matches = <<>>
    /\ r_cfg = NoSets
    /\ r_card_basic = FALSE
    /\ r_mode = "normal"
    /\ r_prints = <<>>
    /\ r_fallback = FALSE

\* The dropdown has been read: all_exact_matches is non-empty (an empty list returns earlier).
RecCall ==
    /\ r_pc = "idle"
    /\ \E m \in PrintLists, c \in Configs, b \in BOOLEAN, md \in {"normal", "priming", "token"} :
          /\ all_exact_matches' = m
          /\ r_cfg' = c
          /\ r_card_basic' = b
          /\ r_mode' = md
    /\ r_pc' = "called"
    /\ UNCHANGED <<r_prints, r_fallback>>
    /\ UNCHANGED <<stabVars, prepVars, runVars, guardVars, selVars,
                   textVars, nameVars, searchVars, fileVars, carryVars>>

RecFilter ==
    /\ r_pc = "called"
    /\ LET out == FilterPrints(all_exact_matches, r_cfg, r_card_basic, r_mode)
       IN  /\ r_prints' = out.prints
           /\ r_fallback' = out.fallback
    /\ r_pc' = "returned"
    /\ UNCHANGED <<all_exact_matches, r_cfg, r_card_basic, r_mode>>
    /\ UNCHANGED <<stabVars, prepVars, runVars, guardVars, selVars,
                   textVars, nameVars, searchVars, fileVars, carryVars>>

\* The caller has consumed the returned pair; nothing of the call is kept.
RecDone ==
    /\ r_pc = "returned"
    /\ r_pc' = "idle"
    /\ all_exact_matches' = <<>>
    /\ r_cfg' = NoSets
    /\ r_card_basic' = FALSE
    /\ r_mode' = "normal"
    /\ r_prints' = <<>>
    /\ r_fallback' = FALSE
    /\ UNCHANGED <<stabVars, prepVars, runVars, guardVars, selVars,
                   textVars, nameVars, searchVars, fileVars, carryVars>>

\* ========================================================================
\* Asset pipeline: _prepare_art_asset for one (card_name, set_code, collector_number)
\* ========================================================================

\* The automators main() can build: an output directory or an upload path on an image
\* server is required; the upscaler is optional.
PrepConfigs ==
    { c \in [image_server_url : BOOLEAN, download_dir : BOOLEAN,
             upscale_art : BOOLEAN, ilaria_url : BOOLEAN] :
        c.image_server_url \/ c.download_dir }

\* Extensions get_image_mime_type_and_extension reports in the model ("" = unknown).
DetectedExts == {".jpg", ".png", ""}

\* initial_ext_guess of a Scryfall art_crop URL
InitialExtGuess == ".jpg"

\* possible_extensions = [guess] + [the other known extensions]
PossibleExtensions(guess) ==
    LET Other(e) == e # guess
    IN  <<guess>> \o SelectSeq(<<".jpg", ".png", ".jpeg", ".webp", ".gif">>, Other)

ArtCropUrl == <<"scryfall", "art_crop", ".jpg">>

\* The URL (or local path) under which an asset of sub_dir with extension ext is served.
HostedUrl(cfg, sub_dir, ext) ==
    IF cfg.image_server_url THEN <<"server", sub_dir, ext>>
    ELSE IF cfg.download_dir THEN <<"local", sub_dir, ext>>
    ELSE None

\* One extension of the existence probe: the server is asked first, then the local directory.
ProbeHit(cfg, server, local, sub_dir, ext) ==
    \/ cfg.image_server_url /\ <<sub_dir, ext>> \in server
    \/ cfg.download_dir /\ <<sub_dir, ext>> \in local

\* The existence probe for the original: the first extension that is found, or "" for none.
ProbeOriginal(cfg, server, local, exts) ==
    LET hits == { i \in DOMAIN exts : ProbeHit(cfg, server, local, "original", exts[i]) }
    IN  IF hits = {} THEN NoneStr
        ELSE exts[CHOOSE i \in hits : \A j \in hits : i <= j]

\* The extensions the probe loop asks for: it breaks at the first one found.
ProbedExtensions(cfg, server, local, exts) ==
    LET hits == { i \in DOMAIN exts : ProbeHit(cfg, server, local, "original", exts[i]) }
    IN  IF hits = {} THEN exts
        ELSE SubSeq(exts, 1, CHOOSE i \in hits : \A j \in hits : i <= j)

\* `if not hosted_original_art_url:` the original is saved/uploaded
OriginalMissing_Always(hosted) == TRUE
OriginalMissing(hosted) == hosted = None

\* if not hosted_original_art_url or self.upscale_art: fetch the original bytes
NeedsFetch(cfg, hosted) == hosted = None \/ cfg.upscale_art

\* _save_or_upload_image: a local write when download_dir is set, else an upload, else nothing.
SavedLocal(cfg, local, key, ok) ==
    IF cfg.download_dir /\ ok THEN local \cup {key} ELSE local
SavedServer_AlsoWhenLocal(cfg, server, key, ok) ==
    IF cfg.image_server_url /\ ok THEN server \cup {key} ELSE server
SavedServer(cfg, server, key, ok) ==
    IF ~cfg.download_dir /\ cfg.image_server_url /\ ok THEN server \cup {key} ELSE server

\* 4. Determine the final art source URL to return
FinalArtSourceUrl_PrefersOriginal(upscaled, original) ==
    IF original # None THEN original
    ELSE IF upscaled # None THEN upscaled
    ELSE ArtCropUrl
FinalArtSourceUrl(upscaled, original) ==
    IF upscaled # None THEN upscaled
    ELSE IF original # None THEN original
    ELSE ArtCropUrl

\* What one call is known to have done: the extensions its probe of the original
\* asked for, the outcome of its probe of the upscaled asset, and the assets it
\* handed to _save_or_upload_image.
NoCall == [fetches |-> 0, upscales |-> 0, lookup_ok |-> FALSE, failed |-> FALSE,
           ret |-> "pending", url |-> None,
           probed |-> <<>>, found |-> NoneStr, up_probe |-> "none", persists |-> <<>>]

PrepInit ==
    /\ a_pc = "idle"
    /\ a_cfg \in PrepConfigs
    /\ server_files = {}
    /\ local_files = {}
    /\ call_no = 0
    /\ a_log = <<>>
    /\ original_image_actual_ext = InitialExtGuess
    /\ hosted_original_art_url = None
    /\ hosted_upscaled_art_url = None
    /\ original_art_bytes_for_pipeline = FALSE

PrepIdle ==
    /\ PrepInit
    /\ a_cfg = [image_server_url |-> TRUE, download_dir |-> FALSE,
                upscale_art |-> FALSE, ilaria_url |-> FALSE]

\* _prepare_art_asset(card_name, set_code, collector_number) is called.
PrepCall ==
    /\ a_pc = "idle"
    /\ call_no < MaxPrepCalls
    /\ call_no' = call_no + 1
    /\ a_log' = Append(a_log, NoCall)
    /\ original_image_actual_ext' = InitialExtGuess
    /\ hosted_original_art_url' = None
    /\ hosted_upscaled_art_url' = None
    /\ original_art_bytes_for_pipeline' = FALSE
    /\ a_pc' = "lookup"
    /\ UNCHANGED <<a_cfg, server_files, local_files>>
    /\ UNCHANGED <<stabVars, recVars, runVars, guardVars, selVars,
                   textVars, nameVars, searchVars, fileVars, carryVars>>

\* 1. Get the art_crop URL from Scryfall; without one, return (None, None).
PrepLookup ==
    /\ a_pc = "lookup"
    /\ \E ok \in BOOLEAN :
          IF ok
             THEN /\ a_log' = [a_log EXCEPT ![call_no].lookup_ok = TRUE]
                  /\ a_pc' = "probe"
             ELSE /\ a_log' = [a_log EXCEPT ![call_no].ret = "none_pair",
                                            ![call_no].failed = TRUE]
                  /\ a_pc' = "returned"
    /\ UNCHANGED <<a_cfg, server_files, local_files, call_no, original_image_actual_ext,
                   hosted_original_art_url, hosted_upscaled_art_url,
                   original_art_bytes_for_pipeline>>
    /\ UNCHANGED <<stabVars, recVars, runVars, guardVars, selVars,
                   textVars, nameVars, searchVars, fileVars, carryVars>>

\* 1. Check for existing original art on server/local (the whole probe loop).
PrepProbe ==
    /\ a_pc = "probe"
    /\ LET found == ProbeOriginal(a_cfg, server_files, local_files,
                                  PossibleExtensions(original_image_actual_ext))
       IN  /\ hosted_original_art_url' =
                  IF found = NoneStr THEN None ELSE HostedUrl(a_cfg, "original", found)
           /\ a_log' = [a_log EXCEPT ![call_no].found = found,
                                     ![call_no].probed =
                            ProbedExtensions(a_cfg, server_files, local_files,
                                             PossibleExtensions(original_image_actual_ext))]
    /\ a_pc' = "fetch"
    /\ UNCHANGED <<a_cfg, server_files, local_files, call_no, original_image_actual_ext,
                   hosted_upscaled_art_url, original_art_bytes_for_pipeline>>
    /\ UNCHANGED <<stabVars, recVars, runVars, guardVars, selVars,
                   textVars, nameVars, searchVars, fileVars, carryVars>>

\* 2. Fetch the original bytes and save/upload them if the original is not hosted;
\*    a failed fetch returns a bare None.
PrepFetch ==
    /\ a_pc = "fetch"
    /\ NeedsFetch(a_cfg, hosted_original_art_url)
    /\ \E fetched \in BOOLEAN, ext \in DetectedExts, stored \in BOOLEAN :
          IF ~fetched
             THEN /\ a_log' = [a_log EXCEPT ![call_no].fetches = @ + 1,
                                            ![call_no].ret = "bare_none",
                                            ![call_no].failed = TRUE]
                  /\ a_pc' = "returned"
                  /\ UNCHANGED <<server_files, local_files, original_image_actual_ext,
                                 hosted_original_art_url, original_art_bytes_for_pipeline>>
             ELSE LET actual == IF ext # "" THEN ext ELSE original_image_actual_ext
                      key == <<"original", actual>>
                      missing == OriginalMissing(hosted_original_art_url)
                  IN  /\ original_art_bytes_for_pipeline' = TRUE
                      /\ original_image_actual_ext' = actual
                      /\ local_files' = IF missing THEN SavedLocal(a_cfg, local_files, key, stored)
                                                   ELSE local_files
                      /\ server_files' = IF missing THEN SavedServer(a_cfg, server_files, key, stored)
                                                    ELSE server_files
                      /\ hosted_original_art_url' =
                             IF missing THEN HostedUrl(a_cfg, "original", actual)
                                        ELSE hosted_original_art_url
                      /\ a_log' = [a_log EXCEPT ![call_no].fetches = @ + 1,
                                                ![call_no].failed = @ \/ (missing /\ ~stored),
                                                ![call_no].persists =
                                                    IF missing THEN Append(@, key) ELSE @]
                      /\ a_pc' = "upscale"
    /\ UNCHANGED <<a_cfg, call_no, hosted_upscaled_art_url>>
    /\ UNCHANGED <<stabVars, recVars, runVars, guardVars, selVars,
                   textVars, nameVars, searchVars, fileVars, carryVars>>

\* The original is hosted and no upscaling is configured: nothing is fetched.
PrepSkipFetch ==
    /\ a_pc = "fetch"
    /\ ~NeedsFetch(a_cfg, hosted_original_art_url)
    /\ a_pc' = "upscale"
    /\ UNCHANGED <<a_cfg, server_files, local_files, call_no, a_log, original_image_actual_ext,
                   hosted_original_art_url, hosted_upscaled_art_url,
                   original_art_bytes_for_pipeline>>
    /\ UNCHANGED <<stabVars, recVars, runVars, guardVars, selVars,
                   textVars, nameVars, searchVars, fileVars, carryVars>>

\* 3. Upscale if requested and the original bytes are available: the upscaled .png is
\*    probed; if absent the upscaler is invoked (it reads the original again: from the
\*    Scryfall URL when no download_dir is set) and its output saved/uploaded.
PrepUpscale ==
    /\ a_pc = "upscale"
    /\ a_cfg.upscale_art /\ original_art_bytes_for_pipeline /\ a_cfg.ilaria_url
    /\ IF ProbeHit(a_cfg, server_files, local_files, "upscaled", ".png")
          THEN /\ hosted_upscaled_art_url' = HostedUrl(a_cfg, "upscaled", ".png")
               /\ a_log' = [a_log EXCEPT ![call_no].up_probe = "hit"]
               /\ UNCHANGED <<server_files, local_files>>
          ELSE \E upscaled \in BOOLEAN, ext \in DetectedExts, stored \in BOOLEAN :
                  LET refetch == IF a_cfg.download_dir THEN 0 ELSE 1
                      actual == IF ext # "" THEN ext ELSE ".png"
                      key == <<"upscaled", actual>>
                  IN  IF upscaled
                         THEN /\ local_files' = SavedLocal(a_cfg, local_files, key, stored)
                              /\ server_files' = SavedServer(a_cfg, server_files, key, stored)
                              /\ hosted_upscaled_art_url' = HostedUrl(a_cfg, "upscaled", actual)
                              /\ a_log' = [a_log EXCEPT ![call_no].upscales = @ + 1,
                                                        ![call_no].fetches = @ + refetch,
                                                        ![call_no].failed = @ \/ ~stored,
                                                        ![call_no].up_probe = "miss",
                                                        ![call_no].persists = Append(@, key)]
                         ELSE /\ a_log' = [a_log EXCEPT ![call_no].upscales = @ + 1,
                                                        ![call_no].fetches = @ + refetch,
                                                        ![call_no].failed = TRUE,
                                                        ![call_no].up_probe = "miss"]
                              /\ UNCHANGED <<server_files, local_files, hosted_upscaled_art_url>>
    /\ a_pc' = "resolve"
    /\ UNCHANGED <<a_cfg, call_no, original_image_actual_ext, hosted_original_art_url,
                   original_art_bytes_for_pipeline>>
    /\ UNCHANGED <<stabVars, recVars, runVars, guardVars, selVars,
                   textVars, nameVars, searchVars, fileVars, carryVars>>

PrepSkipUpscale ==
    /\ a_pc = "upscale"
    /\ ~(a_cfg.upscale_art /\ original_art_bytes_for_pipeline /\ a_cfg.ilaria_url)
    /\ a_pc' = "resolve"
    /\ UNCHANGED <<a_cfg, server_files, local_files, call_no, a_log, original_image_actual_ext,
                   hosted_original_art_url, hosted_upscaled_art_url,
                   original_art_bytes_for_pipeline>>
    /\ UNCHANGED <<stabVars, recVars, runVars, guardVars, selVars,
                   textVars, nameVars, searchVars, fileVars, carryVars>>

\* 4. Resolve the URL and return (final_art_source_url, type_line).
PrepResolve ==
    /\ a_pc = "resolve"
    /\ a_log' = [a_log EXCEPT ![call_no].ret = "pair",
                              ![call_no].url = FinalArtSourceUrl(hosted_upscaled_art_url,
                                                                 hosted_original_art_url)]
    /\ a_pc' = "returned"
    /\ UNCHANGED <<a_cfg, server_files, local_files, call_no, original_image_actual_ext,
                   hosted_original_art_url, hosted_upscaled_art_url,
                   original_art_bytes_for_pipeline>>
    /\ UNCHANGED <<stabVars, recVars, runVars, guardVars, selVars,
                   textVars, nameVars, searchVars, fileVars, carryVars>>

\* The caller has the returned value.
PrepReturn ==
    /\ a_pc = "returned"
    /\ a_pc' = "idle"
    /\ original_image_actual_ext' = InitialExtGuess
    /\ hosted_original_art_url' = None
    /\ hosted_upscaled_art_url' = None
    /\ original_art_bytes_for_pipeline' = FALSE
    /\ UNCHANGED <<a_cfg, server_files, local_files, call_no, a_log>>
    /\ UNCHANGED <<stabVars, recVars, runVars, guardVars, selVars,
                   textVars, nameVars, searchVars, fileVars, carryVars>>

\* ========================================================================
\* Orchestrator: main()'s card loop and process_and_capture_card
\* ========================================================================

\* Timezone-aware datetimes: thresholds and Last-Modified values.
Times == { <<t>> : t \in 0..MaxTime }

\* Configurations main() accepts: --overwrite-older-than and --overwrite-newer-than
\* cannot be combined.
RunConfigs ==
    { c \in [upload_path : BOOLEAN, overwrite : BOOLEAN,
             overwrite_older_than_dt : Times \cup {None},
             overwrite_newer_than_dt : Times \cup {None},
             card_selection_strategy : {"cardconjurer", "scryfall"},
             set_selection_strategy : {"earliest", "all"},
             no_match_selection : {"earliest", "skip"},
             apply_white_border_on_capture : BOOLEAN] :
        ~(c.overwrite_older_than_dt # None /\ c.overwrite_newer_than_dt # None) }

\* last_modified and last_modified < threshold
Before_NonStrict(lm, dt) == lm # None /\ lm[1] <= dt[1]
Before(lm, dt) == lm # None /\ lm[1] < dt[1]
\* last_modified and last_modified > threshold
After(lm, dt) == lm # None /\ lm[1] > dt[1]

\* What requests.head can end with for an output name: 200 only for a file that is
\* on the server, 404 only for one that is not; any other status (403, 500, 503 ...)
\* and a RequestException (timeout, refused connection) whether it is there or not.
HeadOutcomes(present) ==
    (IF present THEN {"200"} ELSE {"404"}) \cup {"other_status", "request_exception"}

\* check_server_file_details(url): (exists, last_modified). lm is the parsed
\* Last-Modified header of the 200 response, None when absent or unparsable.
CheckServerFileDetails(status, lm) ==
    IF status = "200"
       THEN [exists |-> TRUE, last_modified |-> lm]
       ELSE [exists |-> FALSE, last_modified |-> None]

\* OVERWRITE PRE-CHECK: should_skip for an output file the existence check answered for.
ShouldSkip_NonStrict(ex, lm, cfg) ==
    IF ~ex THEN FALSE
    ELSE IF cfg.overwrite THEN FALSE
    ELSE IF cfg.overwrite_older_than_dt # None
         THEN ~Before_NonStrict(lm, cfg.overwrite_older_than_dt)
    ELSE IF cfg.overwrite_newer_than_dt # None
         THEN ~After(lm, cfg.overwrite_newer_than_dt)
    ELSE TRUE
ShouldSkip_OlderInverted(ex, lm, cfg) ==
    IF ~ex THEN FALSE
    ELSE IF cfg.overwrite THEN FALSE
    ELSE IF cfg.overwrite_older_than_dt # None
         THEN ~After(lm, cfg.overwrite_older_than_dt)
    ELSE IF cfg.overwrite_newer_than_dt # None
         THEN ~After(lm, cfg.overwrite_newer_than_dt)
    ELSE TRUE
ShouldSkip(ex, lm, cfg) ==
    IF ~ex THEN FALSE
    ELSE IF cfg.overwrite THEN FALSE
    ELSE IF cfg.overwrite_older_than_dt # None
         THEN ~Before(lm, cfg.overwrite_older_than_dt)
    ELSE IF cfg.overwrite_newer_than_dt # None
         THEN ~After(lm, cfg.overwrite_newer_than_dt)
    ELSE TRUE

\* _select_prints_from_candidate: how many prints a strategy selects out of n.
SelectCount(n, strategy) ==
    IF n = 0 THEN 0
    ELSE IF strategy = "all" THEN n
    ELSE IF strategy \in {"latest", "earliest", "random"} THEN 1
    ELSE 0

RunInit ==
    /\ o_pc = "setup"
    /\ o_cfg \in RunConfigs
    /\ cards_to_process \in 1..MaxCards
    /\ card_i = 0
    /\ all_cc_prints = 0
    /\ include_filter_failed_cc = FALSE
    /\ prints_to_capture = 0
    /\ print_i = 0
    /\ output_present = FALSE
    /\ exists = FALSE
    /\ last_modified = None
    /\ should_skip = FALSE
    /\ persisted = "none"
    /\ data_url = NoneStr
    /\ steps = <<>>

RunIdle ==
    /\ RunInit
    /\ cards_to_process = 1
    /\ o_cfg = [upload_path |-> FALSE, overwrite |-> FALSE,
                overwrite_older_than_dt |-> None, overwrite_newer_than_dt |-> None,
                card_selection_strategy |-> "cardconjurer",
                set_selection_strategy |-> "earliest", no_match_selection |-> "earliest",
                apply_white_border_on_capture |-> FALSE]

\* What process_and_capture_card leaves behind when it returns or raises.
CardLocalsReset ==
    /\ all_cc_prints' = 0
    /\ include_filter_failed_cc' = FALSE
    /\ prints_to_capture' = 0
    /\ print_i' = 0
    /\ output_present' = FALSE
    /\ exists' = FALSE
    /\ last_modified' = None
    /\ should_skip' = FALSE
    /\ persisted' = "none"
    /\ data_url' = NoneStr
    /\ steps' = <<>>

\* process_and_capture_card returns: back in main's loop.
CardReturns == o_pc' = "main_loop" /\ CardLocalsReset

\* An exception leaves process_and_capture_card; main has no handler inside the loop, the
\* outer "except Exception" reports a critical error and exits with status 1.
CardRaises == o_pc' = "exit_error" /\ CardLocalsReset

\* One more step of the current card: its name, the print of the capture loop it is for
\* (0 before the loop) and whether the step ends with a call of
\* _wait_for_canvas_stabilization.
Step(name, wait) ==
    steps' = Append(steps, [step |-> name, print |-> print_i, wait |-> wait])

\* The capture loop moves on to the next print, whose steps start after the card's
\* search, or the card is finished.
NextPrint ==
    IF print_i < prints_to_capture
       THEN /\ print_i' = print_i + 1
            /\ o_pc' = "precheck"
            /\ output_present' = FALSE
            /\ exists' = FALSE
            /\ last_modified' = None
            /\ should_skip' = FALSE
            /\ persisted' = "none"
            /\ data_url' = NoneStr
            /\ steps' = SubSeq(steps, 1, 1)
            /\ UNCHANGED <<all_cc_prints, include_filter_failed_cc, prints_to_capture>>
       ELSE CardReturns

\* main(): the automator is constructed (browser session, tabs, "All Art Version") and the
\* frame and global modifications are applied; any exception here ends the run.
OSetup ==
    /\ o_pc = "setup"
    /\ \E ok \in BOOLEAN :
          o_pc' = IF ok THEN "main_loop" ELSE "setup_failed"
    /\ UNCHANGED <<o_cfg, cards_to_process, card_i, all_cc_prints, include_filter_failed_cc,
                   prints_to_capture, print_i, output_present, exists, last_modified,
                   should_skip, persisted, data_url, steps>>
    /\ UNCHANGED <<stabVars, recVars, prepVars, guardVars, selVars,
                   textVars, nameVars, searchVars, fileVars, carryVars>>

\* for i, card_data in enumerate(cards_to_process, 1): process_and_capture_card(card_name)
ONextCard ==
    /\ o_pc = "main_loop"
    /\ card_i < cards_to_process
    /\ card_i' = card_i + 1
    /\ o_pc' = "search"
    /\ UNCHANGED <<o_cfg, cards_to_process, all_cc_prints, include_filter_failed_cc,
                   prints_to_capture, print_i, output_present, exists, last_modified,
                   should_skip, persisted, data_url, steps>>
    /\ UNCHANGED <<stabVars, recVars, prepVars, guardVars, selVars,
                   textVars, nameVars, searchVars, fileVars, carryVars>>

\* The loop is exhausted: "Automation complete."
OFinish ==
    /\ o_pc = "main_loop"
    /\ card_i = cards_to_process
    /\ o_pc' = "exit_ok"
    /\ UNCHANGED <<o_cfg, cards_to_process, card_i, all_cc_prints, include_filter_failed_cc,
                   prints_to_capture, print_i, output_present, exists, last_modified,
                   should_skip, persisted, data_url, steps>>
    /\ UNCHANGED <<stabVars, recVars, prepVars, guardVars, selVars,
                   textVars, nameVars, searchVars, fileVars, carryVars>>

\* Step 1: _get_and_filter_prints. A timeout or any other exception of the UI search is
\* caught inside and gives ([], False).
OSearch ==
    /\ o_pc = "search"
    /\ \E n \in 0..MaxCapture, failed \in BOOLEAN :
          /\ all_cc_prints' = n
          /\ include_filter_failed_cc' = failed
    /\ Step("search", FALSE)
    /\ o_pc' = "select"
    /\ UNCHANGED <<o_cfg, cards_to_process, card_i, prints_to_capture, print_i, output_present, exists,
                   last_modified, should_skip, persisted, data_url>>
    /\ UNCHANGED <<stabVars, recVars, prepVars, guardVars, selVars,
                   textVars, nameVars, searchVars, fileVars, carryVars>>

\* The capture loop starts with the selected prints, or the card returns without any.
StartCapture(n) ==
    IF n = 0
       THEN CardReturns
       ELSE /\ prints_to_capture' = n
            /\ print_i' = 1
            /\ o_pc' = "precheck"
            /\ UNCHANGED <<all_cc_prints, include_filter_failed_cc, output_present, exists,
                           last_modified,
                           should_skip, persisted, data_url, steps>>

\* Card Conjurer Mode: the prints of the UI, by the set or the no-match strategy.
OSelectCardConjurer ==
    /\ o_pc = "select"
    /\ o_cfg.card_selection_strategy = "cardconjurer"
    /\ IF include_filter_failed_cc /\ o_cfg.no_match_selection = "skip"
          THEN CardReturns
          ELSE StartCapture(SelectCount(all_cc_prints,
                                        IF include_filter_failed_cc
                                           THEN o_cfg.no_match_selection
                                           ELSE o_cfg.set_selection_strategy))
    /\ UNCHANGED <<o_cfg, cards_to_process, card_i>>
    /\ UNCHANGED <<stabVars, recVars, prepVars, guardVars, selVars,
                   textVars, nameVars, searchVars, fileVars, carryVars>>

\* Scryfall Mode: the external search (which raises on an HTTP or network error), the
\* fallback query, and the match against the prints of the UI.
OSelectScryfall ==
    /\ o_pc = "select"
    /\ o_cfg.card_selection_strategy = "scryfall"
    /\ \E raises \in BOOLEAN, results \in {"hit", "fallback_hit", "miss"},
          matched \in 0..all_cc_prints :
          IF raises THEN CardRaises
          ELSE IF results # "hit" /\ o_cfg.no_match_selection = "skip" THEN CardReturns
          ELSE IF results = "miss" THEN CardReturns
          ELSE IF matched = 0
               THEN IF o_cfg.no_match_selection = "skip"
                       THEN CardReturns
                       ELSE StartCapture(SelectCount(all_cc_prints, o_cfg.no_match_selection))
          ELSE StartCapture(SelectCount(matched,
                                        IF results = "fallback_hit"
                                           THEN o_cfg.no_match_selection
                                           ELSE o_cfg.set_selection_strategy))
    /\ UNCHANGED <<o_cfg, cards_to_process, card_i>>
    /\ UNCHANGED <<stabVars, recVars, prepVars, guardVars, selVars,
                   textVars, nameVars, searchVars, fileVars, carryVars>>

\* OVERWRITE PRE-CHECK of the current print: only in an upload mode.
OPrecheck_AlsoWhenLocal ==
    /\ o_pc = "precheck"
    /\ \E present \in BOOLEAN :
          /\ output_present' = present
          /\ IF TRUE
                THEN \E status \in HeadOutcomes(present), lm \in Times \cup {None} :
                        LET details == CheckServerFileDetails(status, lm)
                        IN  /\ exists' = details.exists
                            /\ last_modified' = details.last_modified
                            /\ should_skip' = ShouldSkip(details.exists,
                                                         details.last_modified, o_cfg)
                ELSE UNCHANGED <<exists, last_modified, should_skip>>
    /\ o_pc' = "prechecked"
    /\ UNCHANGED <<o_cfg, cards_to_process, card_i, all_cc_prints, include_filter_failed_cc,
                   prints_to_capture, print_i, persisted, data_url, steps>>
    /\ UNCHANGED <<stabVars, recVars, prepVars, guardVars, selVars,
                   textVars, nameVars, searchVars, fileVars, carryVars>>
OPrecheck ==
    /\ o_pc = "precheck"
    /\ \E present \in BOOLEAN :
          /\ output_present' = present
          /\ IF o_cfg.upload_path
                THEN \E status \in HeadOutcomes(present), lm \in Times \cup {None} :
                        LET details == CheckServerFileDetails(status, lm)
                        IN  /\ exists' = details.exists
                            /\ last_modified' = details.last_modified
                            /\ should_skip' = ShouldSkip(details.exists,
                                                         details.last_modified, o_cfg)
                ELSE UNCHANGED <<exists, last_modified, should_skip>>
    /\ o_pc' = "prechecked"
    /\ UNCHANGED <<o_cfg, cards_to_process, card_i, all_cc_prints, include_filter_failed_cc,
                   prints_to_capture, print_i, persisted, data_url, steps>>
    /\ UNCHANGED <<stabVars, recVars, prepVars, guardVars, selVars,
                   textVars, nameVars, searchVars, fileVars, carryVars>>

\* if should_skip: continue
OSkipPrint_SelectsAnyway ==
    /\ o_pc = "prechecked"
    /\ should_skip
    /\ o_pc' = "art"
    /\ Step("select", FALSE)
    /\ UNCHANGED <<all_cc_prints, include_filter_failed_cc, prints_to_capture,
                   print_i, output_present, exists, last_modified, should_skip, persisted,
                   data_url>>
    /\ UNCHANGED <<o_cfg, cards_to_process, card_i>>
    /\ UNCHANGED <<stabVars, recVars, prepVars, guardVars, selVars,
                   textVars, nameVars, searchVars, fileVars, carryVars>>
OSkipPrint ==
    /\ o_pc = "prechecked"
    /\ should_skip
    /\ NextPrint
    /\ UNCHANGED <<o_cfg, cards_to_process, card_i>>
    /\ UNCHANGED <<stabVars, recVars, prepVars, guardVars, selVars,
                   textVars, nameVars, searchVars, fileVars, carryVars>>

\* The print is selected in the dropdown; a failing click or selection raises. The art
\* step follows at once: no wait is made after select_by_value.
OImportPrint ==
    /\ o_pc = "prechecked"
    /\ ~should_skip
    /\ \E ok \in BOOLEAN :
          IF ok
             THEN /\ o_pc' = "art"
                  /\ Step("select", FALSE)
                  /\ UNCHANGED <<all_cc_prints, include_filter_failed_cc, prints_to_capture,
                                 print_i, output_present, exists, last_modified, should_skip,
                                 persisted, data_url>>
             ELSE CardRaises
    /\ UNCHANGED <<o_cfg, cards_to_process, card_i>>
    /\ UNCHANGED <<stabVars, recVars, prepVars, guardVars, selVars,
                   textVars, nameVars, searchVars, fileVars, carryVars>>

\* final_art_url, type_line = self._prepare_art_asset(...): a bare None cannot be unpacked
\* (TypeError); a URL is applied through the UI, where only a RequestException is caught,
\* and _apply_custom_art ends with a stabilization wait. Without a URL nothing is waited for.
OPrepareArt ==
    /\ o_pc = "art"
    /\ \E ret \in {"pair", "none_pair", "bare_none"}, applied \in BOOLEAN :
          IF ret = "bare_none" \/ (ret = "pair" /\ ~applied)
             THEN CardRaises
             ELSE /\ o_pc' = "edits"
                  /\ Step("art", ret = "pair")
                  /\ UNCHANGED <<all_cc_prints, include_filter_failed_cc, prints_to_capture,
                                 print_i, output_present, exists, last_modified, should_skip,
                                 persisted, data_url>>
    /\ UNCHANGED <<o_cfg, cards_to_process, card_i>>
    /\ UNCHANGED <<stabVars, recVars, prepVars, guardVars, selVars,
                   textVars, nameVars, searchVars, fileVars, carryVars>>

\* Text modifications catch their own errors; apply_white_border re-raises.
OApplyEdits ==
    /\ o_pc = "edits"
    /\ \E ok \in BOOLEAN :
          IF o_cfg.apply_white_border_on_capture /\ ~ok
             THEN CardRaises
             ELSE /\ o_pc' = "render_delay"
                  /\ Step("edits", FALSE)
                  /\ UNCHANGED <<all_cc_prints, include_filter_failed_cc, prints_to_capture,
                                 print_i, output_present, exists, last_modified, should_skip,
                                 persisted, data_url>>
    /\ UNCHANGED <<o_cfg, cards_to_process, card_i>>
    /\ UNCHANGED <<stabVars, recVars, prepVars, guardVars, selVars,
                   textVars, nameVars, searchVars, fileVars, carryVars>>

\* time.sleep(self.render_delay): the fixed pause before the canvas is read, made by
\* apply_white_border when the border is applied and by the loop itself otherwise.
ORenderDelay ==
    /\ o_pc = "render_delay"
    /\ Step("render_delay", FALSE)
    /\ o_pc' = "capture"
    /\ UNCHANGED <<o_cfg, cards_to_process, card_i, all_cc_prints, include_filter_failed_cc,
                   prints_to_capture, print_i, output_present, exists, last_modified,
                   should_skip, persisted, data_url>>
    /\ UNCHANGED <<stabVars, recVars, prepVars, guardVars, selVars,
                   textVars, nameVars, searchVars, fileVars, carryVars>>

\* What _get_canvas_data_url can return: a PNG data URL, an 'error: ...' text, or null.
DataUrls == {"data:image/png;base64,", "error: ", NoneStr}

\* not (not data_url or not data_url.startswith('data:image/png;base64,'))
ValidCapture_Always(url) == TRUE
ValidCapture(url) == url # NoneStr /\ url = "data:image/png;base64,"

\* data_url = self._get_canvas_data_url()
OCapture ==
    /\ o_pc = "capture"
    /\ data_url' \in DataUrls
    /\ Step("capture", FALSE)
    /\ o_pc' = "captured"
    /\ UNCHANGED <<o_cfg, cards_to_process, card_i, all_cc_prints, include_filter_failed_cc,
                   prints_to_capture, print_i, output_present, exists, last_modified,
                   should_skip, persisted>>
    /\ UNCHANGED <<stabVars, recVars, prepVars, guardVars, selVars,
                   textVars, nameVars, searchVars, fileVars, carryVars>>

\* An invalid capture is reported and the loop continues with the next print.
OCheckCapture ==
    /\ o_pc = "captured"
    /\ IF ValidCapture(data_url)
          THEN /\ o_pc' = "persist"
               /\ UNCHANGED <<all_cc_prints, include_filter_failed_cc, prints_to_capture,
                              print_i, output_present, exists, last_modified, should_skip,
                              persisted, data_url, steps>>
          ELSE NextPrint
    /\ UNCHANGED <<o_cfg, cards_to_process, card_i>>
    /\ UNCHANGED <<stabVars, recVars, prepVars, guardVars, selVars,
                   textVars, nameVars, searchVars, fileVars, carryVars>>

\* The upload or the local write; every exception is caught and reported.
OPersist_RaisesOnFailure ==
    /\ o_pc = "persist"
    /\ \E ok \in BOOLEAN :
          IF ok
             THEN /\ persisted' = "saved"
                  /\ o_pc' = "persisted"
                  /\ Step("persist", FALSE)
                  /\ UNCHANGED <<all_cc_prints, include_filter_failed_cc, prints_to_capture,
                                 print_i, output_present, exists, last_modified, should_skip,
                                 data_url>>
             ELSE CardRaises
    /\ UNCHANGED <<o_cfg, cards_to_process, card_i>>
    /\ UNCHANGED <<stabVars, recVars, prepVars, guardVars, selVars,
                   textVars, nameVars, searchVars, fileVars, carryVars>>
OPersist ==
    /\ o_pc = "persist"
    /\ \E ok \in BOOLEAN :
          /\ persisted' = IF ok THEN "saved" ELSE "failed"
    /\ o_pc' = "persisted"
    /\ Step("persist", FALSE)
    /\ UNCHANGED <<o_cfg, cards_to_process, card_i, all_cc_prints, include_filter_failed_cc,
                   prints_to_capture, print_i, output_present, exists, last_modified,
                   should_skip, data_url>>
    /\ UNCHANGED <<stabVars, recVars, prepVars, guardVars, selVars,
                   textVars, nameVars, searchVars, fileVars, carryVars>>

\* End of the loop body.
OEndPrint ==
    /\ o_pc = "persisted"
    /\ NextPrint
    /\ UNCHANGED <<o_cfg, cards_to_process, card_i>>
    /\ UNCHANGED <<stabVars, recVars, prepVars, guardVars, selVars,
                   textVars, nameVars, searchVars, fileVars, carryVars>>

\* ========================================================================
\* The exact-match guard of _get_and_filter_prints, on one dropdown option
\* ========================================================================

Alphabet == {"a", "A", " ", "("}
Texts == UNION { [1..n -> Alphabet] : n \in 0..MaxTextLen }
CardNames == { <<"a">>, <<"A", "a">> }

\* str.lower()
LowerChar(c) == IF c = "A" THEN "a" ELSE c
LowerText(s) == [i \in 1..Len(s) |-> LowerChar(s[i])]

\* str.startswith(prefix)
StartsWith(s, prefix) ==
    Len(s) >= Len(prefix) /\ SubSeq(s, 1, Len(prefix)) = prefix

\* s[from:to] with Python's 0-based, clamped slice bounds
Slice(s, from, to) == SubSeq(s, from + 1, IF to < Len(s) THEN to ELSE Len(s))

\* The option is kept when its text starts (ignoring case) with the card name and the
\* name is followed by the end of the text or by " (".
IsExactMatch_PrefixOnly(option_text, card_name) ==
    StartsWith(LowerText(option_text), LowerText(card_name))
IsExactMatch(option_text, card_name) ==
    /\ StartsWith(LowerText(option_text), LowerText(card_name))
    /\ LET end_of_name_index == Len(card_name)
       IN  \/ Len(option_text) = end_of_name_index
           \/ Slice(option_text, end_of_name_index, end_of_name_index + 2) = <<" ", "(">>

GuardInit ==
    /\ g_pc = "idle"
    /\ g_card_name = <<>>
    /\ g_option_text = <<>>
    /\ g_appended = FALSE

\* The search for card_name has filled the dropdown; the loop reaches an option.
GuardCall ==
    /\ g_pc = "idle"
    /\ \E name \in CardNames, text \in Texts :
          /\ g_card_name' = name
          /\ g_option_text' = text
    /\ g_appended' = FALSE
    /\ g_pc' = "option"
    /\ UNCHANGED <<stabVars, recVars, prepVars, runVars, selVars,
                   textVars, nameVars, searchVars, fileVars, carryVars>>

\* The loop body: match_data is appended to all_exact_matches or the option is passed over.
GuardOption ==
    /\ g_pc = "option"
    /\ g_appended' = IsExactMatch(g_option_text, g_card_name)
    /\ g_pc' = "done"
    /\ UNCHANGED <<g_card_name, g_option_text>>
    /\ UNCHANGED <<stabVars, recVars, prepVars, runVars, selVars,
                   textVars, nameVars, searchVars, fileVars, carryVars>>

GuardNext ==
    /\ g_pc = "done"
    /\ g_pc' = "idle"
    /\ g_card_name' = <<>>
    /\ g_option_text' = <<>>
    /\ g_appended' = FALSE
    /\ UNCHANGED <<stabVars, recVars, prepVars, runVars, selVars,
                   textVars, nameVars, searchVars, fileVars, carryVars>>

\* ========================================================================
\* Print selection of process_and_capture_card, on lists of prints
\* ========================================================================

\* What _get_and_filter_prints can hand over: no print, or up to MaxSelPrints prints.
SelPrintLists ==
    {<<>>} \cup
    UNION { { [i \in 1..n |-> MatchData(i, f[i])] : f \in [1..n -> SetNames \cup {NoneStr}] }
            : n \in 1..MaxSelPrints }

\* Records of the external search service: set code, collector number and the
\* illustration identity (prints with the same number share their artwork here).
ExternalSets == {"lea", "4ed"}
ExternalNumbers == {"1", "2"}
IllustrationId(s, n) == n
ExternalRecord(s, n) ==
    [set |-> s, collector_number |-> n, illustration_id |-> IllustrationId(s, n)]
ExternalRecords == { ExternalRecord(s, n) : s \in ExternalSets, n \in ExternalNumbers }
ExternalLists == UNION { [1..n -> ExternalRecords] : n \in 0..MaxResults }

SelConfigs ==
    [card_selection_strategy : {"cardconjurer", "scryfall"},
     set_selection_strategy : {"latest", "earliest", "random", "all"},
     no_match_selection : {"skip", "latest", "earliest", "random", "all"},
     set_filters : BOOLEAN]

SelIdleCfg ==
    [card_selection_strategy |-> "cardconjurer", set_selection_strategy |-> "earliest",
     no_match_selection |-> "earliest", set_filters |-> FALSE]

\* _select_prints_from_candidate; k is the index random.choice picks.
SelectPrintsFromCandidate_Swapped(candidate_prints, strategy, k) ==
    IF candidate_prints = <<>> THEN <<>>
    ELSE IF strategy = "all" THEN candidate_prints
    ELSE IF strategy = "latest" THEN <<candidate_prints[Len(candidate_prints)]>>
    ELSE IF strategy = "earliest" THEN <<candidate_prints[1]>>
    ELSE IF strategy = "random" THEN <<candidate_prints[k]>>
    ELSE <<>>
SelectPrintsFromCandidate(candidate_prints, strategy, k) ==
    IF candidate_prints = <<>> THEN <<>>
    ELSE IF strategy = "all" THEN candidate_prints
    ELSE IF strategy = "latest" THEN <<candidate_prints[1]>>
    ELSE IF strategy = "earliest" THEN <<candidate_prints[Len(candidate_prints)]>>
    ELSE IF strategy = "random" THEN <<candidate_prints[k]>>
    ELSE <<>>

\* The selection from matched_prints (ordered as the external results: oldest first).
SelectFromMatched(matched, strategy, k) ==
    IF strategy = "latest" THEN <<matched[Len(matched)]>>
    ELSE IF strategy = "earliest" THEN <<matched[1]>>
    ELSE IF strategy = "random" THEN <<matched[k]>>
    ELSE matched

\* The indices random.choice can pick from a list.
Choices(list) == IF list = <<>> THEN {1} ELSE 1..Len(list)

\* if self.no_match_selection == 'skip'
SkipCard_Never(cfg) == FALSE
SkipCard(cfg) == cfg.no_match_selection = "skip"

\* The initial query carries the configured set filters.
InitialQuery(cfg, results) ==
    [set_filters |-> cfg.set_filters, prefer |-> "none", results |-> Len(results)]

\* The fallback query: no set filters, prefer:newest / prefer:oldest by the no-match policy.
FallbackQuery_KeepsFilters(cfg, results) ==
    [set_filters |-> cfg.set_filters,
     prefer |-> IF cfg.no_match_selection = "latest" THEN "newest"
                ELSE IF cfg.no_match_selection = "earliest" THEN "oldest"
                ELSE "none",
     results |-> Len(results)]
FallbackQuery(cfg, results) ==
    [set_filters |-> FALSE,
     prefer |-> IF cfg.no_match_selection = "latest" THEN "newest"
                ELSE IF cfg.no_match_selection = "earliest" THEN "oldest"
                ELSE "none",
     results |-> Len(results)]

\* The inner loop over all_cc_prints for one external record: the index of the first
\* print with the record's set and collector number, 0 when there is none, and
\* Len(cc) + 1 when a print without set_name is reached first (None has no lower()).
RECURSIVE FirstMatch(_, _, _)
FirstMatch(sr, cc, i) ==
    IF i > Len(cc) THEN 0
    ELSE IF cc[i].set_name = NoneStr THEN Len(cc) + 1
    ELSE IF /\ Lower(cc[i].set_name) = Lower(sr.set)
            /\ Lower(cc[i].collector_number) = Lower(sr.collector_number)
         THEN i
    ELSE FirstMatch(sr, cc, i + 1)

\* 3. Match Scryfall results against Card Conjurer UI prints
RECURSIVE MatchLoop(_, _, _, _)
MatchLoop(results, cc, j, acc) ==
    IF j > Len(results) THEN [raised |-> FALSE, matched |-> acc]
    ELSE LET m == FirstMatch(results[j], cc, 1)
         IN  IF m = Len(cc) + 1 THEN [raised |-> TRUE, matched |-> acc]
             ELSE MatchLoop(results, cc, j + 1, IF m = 0 THEN acc ELSE Append(acc, cc[m]))

SelInit ==
    /\ sel_pc = "idle"
    /\ sel_cfg = SelIdleCfg
    /\ sel_cc_prints = <<>>
    /\ sel_failed_cc = FALSE
    /\ scryfall_queries = <<>>
    /\ scryfall_results = <<>>
    /\ selection_strategy = "earliest"
    /\ matched_prints = <<>>
    /\ sel_capture = <<>>

\* process_and_capture_card(card_name): Step 1 has returned the prints and the flag.
SelCall ==
    /\ sel_pc = "idle"
    /\ \E cfg \in SelConfigs, cc \in SelPrintLists, failed \in BOOLEAN :
          /\ sel_cfg' = cfg
          /\ sel_cc_prints' = cc
          /\ sel_failed_cc' = failed
          /\ selection_strategy' = cfg.set_selection_strategy
    /\ sel_pc' = "mode"
    /\ UNCHANGED <<scryfall_queries, scryfall_results, matched_prints, sel_capture>>
    /\ UNCHANGED <<stabVars, recVars, prepVars, runVars, guardVars,
                   textVars, nameVars, searchVars, fileVars, carryVars>>

\* Card Conjurer Mode
SelCardConjurer ==
    /\ sel_pc = "mode"
    /\ sel_cfg.card_selection_strategy = "cardconjurer"
    /\ IF sel_failed_cc /\ SkipCard(sel_cfg)
          THEN /\ sel_pc' = "returned"
               /\ UNCHANGED <<selection_strategy, sel_capture>>
          ELSE \E k \in Choices(sel_cc_prints) :
                  LET strategy_to_use == IF sel_failed_cc THEN sel_cfg.no_match_selection
                                         ELSE sel_cfg.set_selection_strategy
                  IN  /\ selection_strategy' = strategy_to_use
                      /\ sel_capture' = SelectPrintsFromCandidate(sel_cc_prints,
                                                                  strategy_to_use, k)
                      /\ sel_pc' = "final_check"
    /\ UNCHANGED <<sel_cfg, sel_cc_prints, sel_failed_cc, scryfall_queries, scryfall_results,
                   matched_prints>>
    /\ UNCHANGED <<stabVars, recVars, prepVars, runVars, guardVars,
                   textVars, nameVars, searchVars, fileVars, carryVars>>

\* Scryfall Mode, 1. Initial Scryfall Query (with set filters); search_cards may raise.
SelQuery ==
    /\ sel_pc = "mode"
    /\ sel_cfg.card_selection_strategy = "scryfall"
    /\ \/ /\ sel_pc' = "raised"
          /\ UNCHANGED <<scryfall_queries, scryfall_results>>
       \/ \E results \in ExternalLists :
             /\ scryfall_queries' = Append(scryfall_queries, InitialQuery(sel_cfg, results))
             /\ scryfall_results' = results
             /\ sel_pc' = IF results # <<>> THEN "match"
                          ELSE IF SkipCard(sel_cfg) THEN "returned"
                          ELSE "fallback_query"
    /\ UNCHANGED <<sel_cfg, sel_cc_prints, sel_failed_cc, selection_strategy, matched_prints,
                   sel_capture>>
    /\ UNCHANGED <<stabVars, recVars, prepVars, runVars, guardVars,
                   textVars, nameVars, searchVars, fileVars, carryVars>>

\* 2. Fallback Scryfall Query if initial one yields no results
SelFallbackQuery ==
    /\ sel_pc = "fallback_query"
    /\ \/ /\ sel_pc' = "raised"
          /\ UNCHANGED <<scryfall_queries, scryfall_results, selection_strategy>>
       \/ \E results \in ExternalLists :
             /\ scryfall_queries' = Append(scryfall_queries, FallbackQuery(sel_cfg, results))
             /\ scryfall_results' = results
             /\ IF results = <<>>
                   THEN /\ sel_pc' = "returned"
                        /\ UNCHANGED selection_strategy
                   ELSE /\ sel_pc' = "match"
                        /\ selection_strategy' = sel_cfg.no_match_selection
    /\ UNCHANGED <<sel_cfg, sel_cc_prints, sel_failed_cc, matched_prints, sel_capture>>
    /\ UNCHANGED <<stabVars, recVars, prepVars, runVars, guardVars,
                   textVars, nameVars, searchVars, fileVars, carryVars>>

\* 3. Match Scryfall results against Card Conjurer UI prints
SelMatch ==
    /\ sel_pc = "match"
    /\ LET m == MatchLoop(scryfall_results, sel_cc_prints, 1, <<>>)
       IN  /\ matched_prints' = m.matched
           /\ sel_pc' = IF m.raised THEN "raised" ELSE "matched"
    /\ UNCHANGED <<sel_cfg, sel_cc_prints, sel_failed_cc, scryfall_queries, scryfall_results,
                   selection_strategy, sel_capture>>
    /\ UNCHANGED <<stabVars, recVars, prepVars, runVars, guardVars,
                   textVars, nameVars, searchVars, fileVars, carryVars>>

\* 4. Apply Final Selection from matched prints or fallback to all CC prints
SelFinal ==
    /\ sel_pc = "matched"
    /\ IF matched_prints = <<>>
          THEN IF SkipCard(sel_cfg)
                  THEN /\ sel_pc' = "returned"
                       /\ UNCHANGED sel_capture
                  ELSE \E k \in Choices(sel_cc_prints) :
                          /\ sel_capture' = SelectPrintsFromCandidate(
                                                sel_cc_prints, sel_cfg.no_match_selection, k)
                          /\ sel_pc' = "final_check"
          ELSE \E k \in Choices(matched_prints) :
                  /\ sel_capture' = SelectFromMatched(matched_prints, selection_strategy, k)
                  /\ sel_pc' = "final_check"
    /\ UNCHANGED <<sel_cfg, sel_cc_prints, sel_failed_cc, scryfall_queries, scryfall_results,
                   selection_strategy, matched_prints>>
    /\ UNCHANGED <<stabVars, recVars, prepVars, runVars, guardVars,
                   textVars, nameVars, searchVars, fileVars, carryVars>>

\* Final Check: without prints to capture the card returns, else the capture loop starts.
SelFinalCheck ==
    /\ sel_pc = "final_check"
    /\ sel_pc' = IF sel_capture = <<>> THEN "returned" ELSE "capture_loop"
    /\ UNCHANGED <<sel_cfg, sel_cc_prints, sel_failed_cc, scryfall_queries, scryfall_results,
                   selection_strategy, matched_prints, sel_capture>>
    /\ UNCHANGED <<stabVars, recVars, prepVars, runVars, guardVars,
                   textVars, nameVars, searchVars, fileVars, carryVars>>

\* The card is finished (captured, returned or raised); the next card starts afresh.
SelDone ==
    /\ sel_pc \in {"capture_loop", "returned", "raised"}
    /\ sel_pc' = "idle"
    /\ sel_cfg' = SelIdleCfg
    /\ sel_cc_prints' = <<>>
    /\ sel_failed_cc' = FALSE
    /\ scryfall_queries' = <<>>
    /\ scryfall_results' = <<>>
    /\ selection_strategy' = "earliest"
    /\ matched_prints' = <<>>
    /\ sel_capture' = <<>>
    /\ UNCHANGED <<stabVars, recVars, prepVars, runVars, guardVars,
                   textVars, nameVars, searchVars, fileVars, carryVars>>

\* ========================================================================
\* Text-field edits: _apply_text_mods on the raw text of one field
\* ========================================================================

\* A tag of the renderer's markup, e.g. {fontsize30}, and the other pieces of a raw text.
Tag(name, val) == <<"{", name, val, "}">>
FieldTokens == {Tag("fontsize", "30"), Tag("fontsize", "40"), <<"x">>, <<" ">>}
FieldTexts == UNION { [1..n -> FieldTokens] : n \in 0..MaxFieldLen }

\* The arguments of one edit: None for a directive that is not configured.
TextArgs == [font_size : {NoneStr, "30", "40"}, kerning : {NoneStr, "5"}, bold : BOOLEAN]
NoTextArgs == [font_size |-> NoneStr, kerning |-> NoneStr, bold |-> FALSE]

\* If no modifications are specified for this field, do nothing.
NoMods(args) == args.font_size = NoneStr /\ args.kerning = NoneStr /\ ~args.bold

\* prefix = "".join(tags) ; suffix = "{/bold}" if bold else ""
Prefix(args) ==
    (IF args.font_size # NoneStr THEN <<Tag("fontsize", args.font_size)>> ELSE <<>>)
    \o (IF args.kerning # NoneStr THEN <<Tag("kerning", args.kerning)>> ELSE <<>>)
    \o (IF args.bold THEN <<Tag("bold", "")>> ELSE <<>>)
Suffix(args) == IF args.bold THEN <<Tag("/bold", "")>> ELSE <<>>

\* current_text and current_text.strip()
NotBlank(text) == \E i \in DOMAIN text : text[i] # <<" ">>

\* new_text = f"{prefix}{current_text}{suffix}", written back when the field is not blank
ApplyTextMods(text, args) ==
    IF NoMods(args) THEN text
    ELSE IF NotBlank(text) THEN Prefix(args) \o text \o Suffix(args)
    ELSE text

TextInit ==
    /\ t_pc = "idle"
    /\ t_args = NoTextArgs
    /\ current_text = <<>>
    /\ t_applied = 0
    /\ t_first = <<>>

\* A field with some raw text is about to be edited with some configured directives.
TextCall ==
    /\ t_pc = "idle"
    /\ t_args' \in TextArgs
    /\ current_text' \in FieldTexts
    /\ t_applied' = 0
    /\ t_first' = <<>>
    /\ t_pc' = "editing"
    /\ UNCHANGED <<stabVars, recVars, prepVars, runVars, guardVars, selVars, nameVars,
                   searchVars, fileVars, carryVars>>

\* _apply_text_mods(field_name, ...) runs on the field (an exception of the UI is caught
\* and leaves the text as it is).
TextApply ==
    /\ t_pc = "editing"
    /\ t_applied < MaxEdits
    /\ current_text' = ApplyTextMods(current_text, t_args)
    /\ t_applied' = t_applied + 1
    /\ t_first' = IF t_applied = 0 THEN current_text' ELSE t_first
    /\ UNCHANGED <<t_pc, t_args>>
    /\ UNCHANGED <<stabVars, recVars, prepVars, runVars, guardVars, selVars, nameVars,
                   searchVars, fileVars, carryVars>>

TextDone ==
    /\ t_pc = "editing"
    /\ t_applied > 0
    /\ t_pc' = "idle"
    /\ t_args' = NoTextArgs
    /\ current_text' = <<>>
    /\ t_applied' = 0
    /\ t_first' = <<>>
    /\ UNCHANGED <<stabVars, recVars, prepVars, runVars, guardVars, selVars, nameVars,
                   searchVars, fileVars, carryVars>>

\* ========================================================================
\* Output names: generate_safe_filename and _generate_final_filename
\* ========================================================================

\* Characters by what the normalization does with them: letters in both cases, the
\* apostrophe and the comma, a whitespace and a path separator, the hyphen, a letter with
\* an accent, compatibility forms of the comma, the apostrophe and the solidus, and a
\* character without an ASCII form.
NameChars == {"a", "A", "'", ",", " ", "/", "-", "E_ACUTE", "FULLWIDTH_COMMA",
              "FULLWIDTH_APOSTROPHE", "FULLWIDTH_SOLIDUS", "EM_DASH"}
NameTexts == UNION { [1..n -> NameChars] : n \in 0..MaxNameLen }

\* value.replace(c, "")
Remove(s, c) == LET Keep(x) == x # c IN SelectSeq(s, Keep)

\* unicodedata.normalize('NFKD', value): one character's compatibility decomposition
Nfkd(c) ==
    CASE c = "E_ACUTE" -> <<"e", "COMBINING_ACUTE">>
      [] c = "FULLWIDTH_COMMA" -> <<",">>
      [] c = "FULLWIDTH_APOSTROPHE" -> <<"'">>
      [] c = "FULLWIDTH_SOLIDUS" -> <<"/">>
      [] OTHER -> <<c>>

RECURSIVE NfkdText(_)
NfkdText(s) == IF s = <<>> THEN <<>> ELSE Nfkd(Head(s)) \o NfkdText(Tail(s))

\* .encode('ascii', 'ignore').decode('ascii')
NonAscii == {"E_ACUTE", "COMBINING_ACUTE", "FULLWIDTH_COMMA", "FULLWIDTH_APOSTROPHE",
             "FULLWIDTH_SOLIDUS", "EM_DASH"}
AsciiIgnore(s) == LET IsAscii(x) == x \notin NonAscii IN SelectSeq(s, IsAscii)

\* The characters of the class [\s/:<>:"\\|?*&] that the model has.
UnsafeChars == {" ", "/"}

RECURSIVE DropWhile(_, _)
DropWhile(s, class) ==
    IF s # <<>> /\ Head(s) \in class THEN DropWhile(Tail(s), class) ELSE s

\* re.sub(r'[class]+', '-', value)
RECURSIVE SubRuns(_, _)
SubRuns(s, class) ==
    IF s = <<>> THEN <<>>
    ELSE IF Head(s) \in class THEN <<"-">> \o SubRuns(DropWhile(Tail(s), class), class)
    ELSE <<Head(s)>> \o SubRuns(Tail(s), class)

\* value.strip('-')
RECURSIVE DropLastWhile(_, _)
DropLastWhile(s, class) ==
    IF s # <<>> /\ s[Len(s)] \in class THEN DropLastWhile(SubSeq(s, 1, Len(s) - 1), class)
    ELSE s
Strip(s, c) == DropLastWhile(DropWhile(s, {c}), {c})

\* generate_safe_filename: the apostrophes and commas are removed first, then the
\* decomposition, the two substitutions, the strip and the lower-casing.
GenerateSafeFilename(v) ==
    LET no_apostrophe == Remove(v, "'")
        no_comma == Remove(no_apostrophe, ",")
        ascii == AsciiIgnore(NfkdText(no_comma))
        hyphenated == SubRuns(ascii, UnsafeChars)
        collapsed == SubRuns(hyphenated, {"-"})
    IN  LowerText(Strip(collapsed, "-"))

UnknownSet == <<"u", "n", "k", "n", "o", "w", "n", "-", "s", "e", "t">>
NoNum == <<"n", "o", "-", "n", "u", "m">>

\* The prints whose output name is computed: set_name and collector_number are None
\* when the option text of the dropdown carries none.
PrintDatas ==
    [card_name : {<<"A", "'", "a">>, <<"a", ",", " ", "A">>},
     set_name : {None, <<"A">>, <<"'">>},
     collector_number : {None, <<"1">>, <<"1", "/", "A">>}]
NoPrintData == [card_name |-> <<>>, set_name |-> None, collector_number |-> None]

\* _generate_final_filename: f"{safe_card}_{safe_set}_{safe_num}.png"
GenerateFinalFilename_FallbackWhenEmpty(card_name, set_name, collector_number) ==
    LET safe_card == GenerateSafeFilename(card_name)
        safe_set == IF GenerateSafeFilename(set_name) # <<>>
                       THEN GenerateSafeFilename(set_name) ELSE UnknownSet
        safe_num == IF GenerateSafeFilename(collector_number) # <<>>
                       THEN GenerateSafeFilename(collector_number) ELSE NoNum
    IN  safe_card \o <<"_">> \o safe_set \o <<"_">> \o safe_num \o <<".png">>
GenerateFinalFilename(card_name, set_name, collector_number) ==
    LET safe_card == GenerateSafeFilename(card_name)
        safe_set == IF set_name # None THEN GenerateSafeFilename(set_name) ELSE UnknownSet
        safe_num == IF collector_number # None THEN GenerateSafeFilename(collector_number)
                                               ELSE NoNum
    IN  safe_card \o <<"_">> \o safe_set \o <<"_">> \o safe_num \o <<".png">>

NameInit ==
    /\ n_pc = "idle"
    /\ value = <<>>
    /\ safe = <<>>
    /\ safe_again = <<>>
    /\ print_data = NoPrintData
    /\ filename = <<>>

\* generate_safe_filename is applied to a string, and once more to its own result.
NameNormalize ==
    /\ n_pc = "idle"
    /\ \E v \in NameTexts :
          /\ value' = v
          /\ safe' = GenerateSafeFilename(v)
          /\ safe_again' = GenerateSafeFilename(GenerateSafeFilename(v))
    /\ n_pc' = "normalized"
    /\ UNCHANGED <<print_data, filename>>
    /\ UNCHANGED <<stabVars, recVars, prepVars, runVars, guardVars, selVars, textVars,
                   searchVars, fileVars, carryVars>>

\* The output name of a print is computed.
NameFinal ==
    /\ n_pc = "idle"
    /\ \E p \in PrintDatas :
          /\ print_data' = p
          /\ filename' = GenerateFinalFilename(p.card_name, p.set_name, p.collector_number)
    /\ n_pc' = "named"
    /\ UNCHANGED <<value, safe, safe_again>>
    /\ UNCHANGED <<stabVars, recVars, prepVars, runVars, guardVars, selVars, textVars,
                   searchVars, fileVars, carryVars>>

NameDone ==
    /\ n_pc \in {"normalized", "named"}
    /\ n_pc' = "idle"
    /\ value' = <<>>
    /\ safe' = <<>>
    /\ safe_again' = <<>>
    /\ print_data' = NoPrintData
    /\ filename' = <<>>
    /\ UNCHANGED <<stabVars, recVars, prepVars, runVars, guardVars, selVars, textVars,
                   searchVars, fileVars, carryVars>>

\* ========================================================================
\* Print reconciliation: the search of the renderer, with its retries
\* ========================================================================

max_retries == 3

\* `if attempt < max_retries - 1`: the failed attempt is retried; the last one
\* returns, so the `else` of the for loop is never reached.
Retry_OneLess(a) == a < max_retries - 2
Retry(a) == a < max_retries - 1

EmptyReturn == [prints |-> <<>>, fallback |-> FALSE]

SearchInit ==
    /\ q_pc = "idle"
    /\ attempt = 0
    /\ q_log = <<>>
    /\ q_matches = <<>>
    /\ q_ret = None

SearchCall ==
    /\ q_pc = "idle"
    /\ q_pc' = "loop"
    /\ attempt' = 0
    /\ q_log' = <<>>
    /\ q_matches' = <<>>
    /\ q_ret' = None
    /\ UNCHANGED <<stabVars, recVars, prepVars, runVars, guardVars, selVars, textVars,
                   nameVars, fileVars, carryVars>>

\* One pass of the loop body: type the name, wait for the dropdown, collect the
\* exact matches. It ends in one of four ways: the dropdown never appears
\* (TimeoutException), it has no exact match, it has some, or another exception
\* is raised (the loop catches TimeoutException only).
SearchAttempt ==
    /\ q_pc = "loop"
    /\ attempt < max_retries
    /\ \E outcome \in {"timeout", "no_match", "match", "error"}, found \in PrintLists :
          /\ q_log' = Append(q_log, outcome)
          /\ q_matches' = IF outcome = "match" THEN found ELSE <<>>
          /\ CASE outcome = "match" ->
                    /\ q_pc' = "filter"
                    /\ UNCHANGED <<attempt, q_ret>>
               [] outcome = "error" ->
                    /\ q_pc' = "raised"
                    /\ UNCHANGED <<attempt, q_ret>>
               [] OTHER ->
                    IF Retry(attempt)
                    THEN /\ q_pc' = "loop"
                         /\ attempt' = attempt + 1
                         /\ UNCHANGED q_ret
                    ELSE /\ q_pc' = "returned"
                         /\ q_ret' = EmptyReturn
                         /\ UNCHANGED attempt
    /\ UNCHANGED <<stabVars, recVars, prepVars, runVars, guardVars, selVars, textVars,
                   nameVars, fileVars, carryVars>>

\* The call is over: it returned from the loop, raised, or went on to the filters.
SearchDone ==
    /\ q_pc \in {"filter", "returned", "raised"}
    /\ q_pc' = "idle"
    /\ attempt' = 0
    /\ q_log' = <<>>
    /\ q_matches' = <<>>
    /\ q_ret' = None
    /\ UNCHANGED <<stabVars, recVars, prepVars, runVars, guardVars, selVars, textVars,
                   nameVars, fileVars, carryVars>>

\* ========================================================================
\* The project file editor: CcFileEditor.apply_edits on one card
\* ========================================================================

\* The text of a field as a sequence of tokens: a numbered tag {nameN}, a tag
\* without a number ({bold}, {/bold}, {flavor}) or one plain character, <<"x">>.
NumTag(name, n) == <<"{", name, n, "}">>
Word(name) == <<"{", name, "}">>

\* _update_tag: the first tag of that name is replaced, or the tag is prepended.
\* hits: the positions re.search(r'\{tag_name-?\d+\}', text) can match at.
UpdateTag(text, tag_name, val) ==
    LET hits == { i \in DOMAIN text : Len(text[i]) = 4 /\ text[i][2] = tag_name }
    IN  IF hits # {}
           THEN [text EXCEPT ![CHOOSE i \in hits : \A j \in hits : i <= j] =
                                  NumTag(tag_name, val)]
           ELSE <<NumTag(tag_name, val)>> \o text

\* `new_text = self._update_tag(new_text, tag, arg)` under `if arg is not None`
UpdateIfSet(text, tag_name, arg) ==
    IF arg # None THEN UpdateTag(text, tag_name, arg[1]) ELSE text

\* '{bold}' in text, '{flavor}' in text
Contains(text, word) == \E i \in DOMAIN text : text[i] = Word(word)

\* --- Border Edits ---
WhiteBorder == "White Border"
BorderEdits(frames_list, args) ==
    LET has_white_border == frames_list # <<>> /\ frames_list[1] = WhiteBorder
    IN  IF args.white_border
           THEN IF ~has_white_border THEN <<WhiteBorder>> \o frames_list ELSE frames_list
        ELSE IF args.black_border
           THEN IF has_white_border THEN Tail(frames_list) ELSE frames_list
        ELSE frames_list

\* --- Title Edits ---
TitleEdits(text, args) ==
    UpdateIfSet(UpdateIfSet(text, "kerning", args.title_kerning),
                "fontsize", args.title_font_size)

\* --- Type Edits ---
\* Auto-fit: the kerning and font size written when the text is too long, None
\* where auto-fit leaves the argument as it is. char_count is
\* len(re.sub(r'\{[^}]+\}', '', original_text)).
AutoFit(text, args) ==
    LET Max(a, b) == IF a >= b THEN a ELSE b
        Min(a, b) == IF a <= b THEN a ELSE b
        char_count == Cardinality({ i \in DOMAIN text : text[i] = <<"x">> })
        k == IF args.type_kerning # None THEN args.type_kerning[1] ELSE 0
        f == IF args.type_font_size # None THEN args.type_font_size[1] ELSE 0
        threshold == 34 - k - ((f * 3) \div 10)
        excess == Max(0, char_count - threshold)
        k_drop == Min(excess, Max(0, k - 1))
        final_k == k - k_drop
        f_drop == ((excess - k_drop) * 5 + 1) \div 2
        final_f == f - f_drop
    IN  [kerning |-> IF args.auto_fit_type /\ excess > 0 /\ final_k # k
                        THEN <<final_k>> ELSE None,
         fontsize |-> IF args.auto_fit_type /\ excess > 0 /\ final_f # f
                         THEN <<final_f>> ELSE None]
TypeEdits(text, args) ==
    LET fit == AutoFit(text, args)
        effective_kerning == IF fit.kerning # None THEN fit.kerning ELSE args.type_kerning
        effective_fs == IF fit.fontsize # None THEN fit.fontsize ELSE args.type_font_size
    IN  UpdateIfSet(UpdateIfSet(text, "kerning", effective_kerning), "fontsize", effective_fs)

\* --- PT Edits ---
PtEdits(text, args) ==
    LET tagged == UpdateIfSet(UpdateIfSet(text, "kerning", args.pt_kerning),
                              "fontsize", args.pt_font_size)
    IN  IF args.pt_bold /\ ~Contains(tagged, "bold")
           THEN <<Word("bold")>> \o tagged \o <<Word("/bold")>>
           ELSE tagged

\* --- Rules/Flavor Edits ---
RulesEdits(text, args) ==
    LET lowered == UpdateIfSet(text, "down", args.rules_down)
    IN  IF args.flavor_font # None /\ Contains(lowered, "flavor")
           THEN LET i == CHOOSE n \in DOMAIN lowered :
                             /\ lowered[n] = Word("flavor")
                             /\ \A j \in 1..(n - 1) : lowered[j] # Word("flavor")
                    pre_flavor == SubSeq(lowered, 1, i - 1)
                    flavor_text == SubSeq(lowered, i + 1, Len(lowered))
                IN  pre_flavor \o <<Word("flavor")>>
                               \o UpdateTag(flavor_text, "fontsize", args.flavor_font[1])
           ELSE lowered

\* apply_edits on one card: the frames and the card's text field.
ApplyEdits(card, args) ==
    [frames |-> BorderEdits(card.frames, args),
     field |-> card.field,
     text |-> CASE card.field = "title" -> TitleEdits(card.text, args)
                [] card.field = "type" -> TypeEdits(card.text, args)
                [] card.field = "pt" -> PtEdits(card.text, args)
                [] card.field = "rules" -> RulesEdits(card.text, args)]

\* The cards of a project file. apply_edits edits each text field of a card from
\* that field's own arguments and independently of the other fields: the cards
\* of the model carry one text field, and the arguments of the other fields are
\* left unset.
Cards ==
    LET FrameLists == UNION { [1..n -> {WhiteBorder, "Regular"}] : n \in 0..MaxFrames }
        TokensOf(field) ==
            CASE field = "title" -> {<<"x">>, NumTag("kerning", 5), NumTag("fontsize", 5)}
              [] field = "type" -> {<<"x">>, NumTag("kerning", 5)}
              [] field = "pt" -> {<<"x">>, NumTag("kerning", 5), Word("bold")}
              [] field = "rules" -> {<<"x">>, Word("flavor"), NumTag("fontsize", 5)}
    IN  UNION { { [frames |-> fr, field |-> fd, text |-> tx] :
                    fr \in FrameLists,
                    tx \in UNION { [1..n -> TokensOf(fd)] : n \in 0..MaxFieldLen } }
                : fd \in {"title", "type", "pt", "rules"} }
NoCard == [frames |-> <<>>, field |-> "title", text |-> <<>>]

NoEditArgs ==
    [white_border |-> FALSE, black_border |-> FALSE,
     title_kerning |-> None, title_font_size |-> None,
     type_kerning |-> None, type_font_size |-> None, auto_fit_type |-> FALSE,
     pt_kerning |-> None, pt_font_size |-> None, pt_bold |-> FALSE,
     rules_down |-> None, flavor_font |-> None]
EditArgs(field) ==
    LET FieldArgs ==
          CASE field = "title" ->
                  { [NoEditArgs EXCEPT !.title_kerning = k, !.title_font_size = f] :
                      k \in {None, <<1>>}, f \in {None, <<30>>} }
            [] field = "type" ->
                  { [NoEditArgs EXCEPT !.type_kerning = k, !.type_font_size = f,
                                       !.auto_fit_type = a] :
                      k \in {None, <<2>>}, f \in {None, <<110>>}, a \in BOOLEAN }
            [] field = "pt" ->
                  { [NoEditArgs EXCEPT !.pt_kerning = k, !.pt_font_size = f,
                                       !.pt_bold = b] :
                      k \in {None, <<1>>}, f \in {None, <<30>>}, b \in BOOLEAN }
            [] field = "rules" ->
                  { [NoEditArgs EXCEPT !.rules_down = d, !.flavor_font = f] :
                      d \in {None, <<-10>>}, f \in {None, <<20>>} }
    IN  { [a EXCEPT !.white_border = w, !.black_border = b] :
            a \in FieldArgs, w \in BOOLEAN, b \in BOOLEAN }

FileInit ==
    /\ f_pc = "idle"
    /\ f_card = NoCard
    /\ f_args = NoEditArgs
    /\ f_once = NoCard
    /\ f_twice = NoCard

\* CcFileEditor(filepath): the project file is loaded.
FileLoad ==
    /\ f_pc = "idle"
    /\ \E card \in Cards :
          /\ f_card' = card
          /\ f_args' \in EditArgs(card.field)
    /\ f_pc' = "loaded"
    /\ UNCHANGED <<f_once, f_twice>>
    /\ UNCHANGED <<stabVars, recVars, prepVars, runVars, guardVars, selVars, textVars,
                   nameVars, searchVars, carryVars>>

\* editor.apply_edits(...)
FileApply ==
    /\ f_pc = "loaded"
    /\ f_once' = ApplyEdits(f_card, f_args)
    /\ f_pc' = "edited"
    /\ UNCHANGED <<f_card, f_args, f_twice>>
    /\ UNCHANGED <<stabVars, recVars, prepVars, runVars, guardVars, selVars, textVars,
                   nameVars, searchVars, carryVars>>

\* apply_edits once more, with the same arguments, on the edited data.
FileApplyAgain ==
    /\ f_pc = "edited"
    /\ f_twice' = ApplyEdits(f_once, f_args)
    /\ f_pc' = "edited_twice"
    /\ UNCHANGED <<f_card, f_args, f_once>>
    /\ UNCHANGED <<stabVars, recVars, prepVars, runVars, guardVars, selVars, textVars,
                   nameVars, searchVars, carryVars>>

FileDone ==
    /\ f_pc = "edited_twice"
    /\ f_pc' = "idle"
    /\ f_card' = NoCard
    /\ f_args' = NoEditArgs
    /\ f_once' = NoCard
    /\ f_twice' = NoCard
    /\ UNCHANGED <<stabVars, recVars, prepVars, runVars, guardVars, selVars, textVars,
                   nameVars, searchVars, carryVars>>

\* ========================================================================
\* The fingerprint carried between stabilization waits
\* ========================================================================

\* self.current_canvas_hash = None in the constructor; no wait has been made.
CarryInit ==
    /\ current_canvas_hash = None
    /\ last_wait = "none"

\* self._wait_for_canvas_stabilization(self.current_canvas_hash) from
\* _apply_custom_art (wait_for_change left at True), or
\* self._wait_for_canvas_stabilization(self.current_canvas_hash, wait_for_change=False)
\* from set_frame: the prior of the wait is the carried fingerprint.
CarryCall ==
    /\ StabCall
    /\ prior' = current_canvas_hash

\* self.current_canvas_hash = <the value the wait returned>
CarryReturn_KeepsOnTimeout ==
    /\ s_pc = "done"
    /\ s_pc' = "idle"
    /\ current_canvas_hash' = IF s_result = None THEN current_canvas_hash ELSE s_result
    /\ last_wait' = IF stable_count >= STABILITY_CHECKS THEN "stable" ELSE "timeout"
    /\ UNCHANGED <<prior, wait_for_change, initial_hash, entry_hash, last_hash, stable_count,
                   elapsed, samples, s_result>>
    /\ UNCHANGED <<recVars, prepVars, runVars, guardVars, selVars, textVars, nameVars,
                   searchVars, fileVars>>
CarryReturn ==
    /\ s_pc = "done"
    /\ s_pc' = "idle"
    /\ current_canvas_hash' = s_result
    /\ last_wait' = IF stable_count >= STABILITY_CHECKS THEN "stable" ELSE "timeout"
    /\ UNCHANGED <<prior, wait_for_change, initial_hash, entry_hash, last_hash, stable_count,
                   elapsed, samples, s_result>>
    /\ UNCHANGED <<recVars, prepVars, runVars, guardVars, selVars, textVars, nameVars,
                   searchVars, fileVars>>

\* ========================================================================
\* Specifications
\* ========================================================================

Init == StabInit /\ RecInit /\ PrepIdle /\ RunIdle /\ GuardInit /\ SelInit /\ TextInit
        /\ NameInit /\ SearchInit /\ FileInit /\ CarryInit

NextStab == StabCall \/ StabEntry \/ StabPoll \/ StabTimeout \/ StabReturn
SpecStab == Init /\ [][NextStab]_vars

NextRec == RecCall \/ RecFilter \/ RecDone
SpecRec == Init /\ [][NextRec]_vars

InitPrep == StabInit /\ RecInit /\ PrepInit /\ RunIdle /\ GuardInit /\ SelInit /\ TextInit
            /\ NameInit /\ SearchInit /\ FileInit /\ CarryInit
NextPrep == PrepCall \/ PrepLookup \/ PrepProbe \/ PrepFetch \/ PrepSkipFetch
            \/ PrepUpscale \/ PrepSkipUpscale \/ PrepResolve \/ PrepReturn
SpecPrep == InitPrep /\ [][NextPrep]_vars

InitRun == StabInit /\ RecInit /\ PrepIdle /\ RunInit /\ GuardInit /\ SelInit /\ TextInit
           /\ NameInit /\ SearchInit /\ FileInit /\ CarryInit
NextRun == OSetup \/ ONextCard \/ OFinish \/ OSearch \/ OSelectCardConjurer \/ OSelectScryfall
           \/ OPrecheck \/ OSkipPrint \/ OImportPrint \/ OPrepareArt \/ OApplyEdits
           \/ ORenderDelay \/ OCapture \/ OCheckCapture \/ OPersist \/ OEndPrint
SpecRun == InitRun /\ [][NextRun]_vars

NextGuard == GuardCall \/ GuardOption \/ GuardNext
SpecGuard == Init /\ [][NextGuard]_vars

NextSel == SelCall \/ SelCardConjurer \/ SelQuery \/ SelFallbackQuery \/ SelMatch \/ SelFinal
           \/ SelFinalCheck \/ SelDone
SpecSel == Init /\ [][NextSel]_vars

NextText == TextCall \/ TextApply \/ TextDone
SpecText == Init /\ [][NextText]_vars

NextName == NameNormalize \/ NameFinal \/ NameDone
SpecName == Init /\ [][NextName]_vars

NextSearch == SearchCall \/ SearchAttempt \/ SearchDone
SpecSearch == Init /\ [][NextSearch]_vars

NextFile == FileLoad \/ FileApply \/ FileApplyAgain \/ FileDone
SpecFile == Init /\ [][NextFile]_vars

NextCarry == CarryCall \/ StabEntry \/ StabPoll \/ StabTimeout \/ CarryReturn
SpecCarry == Init /\ [][NextCarry]_vars

\* ========================================================================
\* Properties of the stabilization detector
\* ========================================================================

\* The samples of the wait that were readable, in order.
Readable(seq) == LET IsHash(h) == h # None IN SelectSeq(seq, IsHash)

\* seq[from..to] are all equal to h.
AllEqual(seq, from, to, h) == \A i \in from..to : seq[i] = h

\* seq ends with k copies of h.
EndsWithRun(seq, k, h) == Len(seq) >= k /\ AllEqual(seq, Len(seq) - k + 1, Len(seq), h)

\* Some k consecutive elements of seq[1..upto] are identical.
HasRun(seq, k, upto) ==
    \E j \in 1..upto : j + k - 1 <= upto /\ AllEqual(seq, j, j + k - 1, seq[j])

\* The canvas showed h when the wait was entered and at every poll of the wait.
ConstantRenderer(h) == entry_hash = h /\ AllEqual(samples, 1, Len(samples), h)

\* C5: a wait with require_change = true and a non-null prior fingerprint never
\* returns the prior fingerprint, whatever the sequence of samples is.
C5_NeverReturnsPrior ==
    (s_pc = "done" /\ wait_for_change /\ prior # None) => s_result # prior

\* C5 witness: a change-gated wait returned a fingerprint although the prior one
\* was observed again after a different value.
C5_Witness ==
    /\ s_pc = "done" /\ wait_for_change /\ prior # None
    /\ s_result \notin {None, prior}
    /\ \E i, j \in DOMAIN samples : i < j /\ samples[i] = s_result /\ samples[j] = prior

\* C6 (as claimed): a returned fingerprint is the value of the last
\* STABILITY_CHECKS samples taken, no different sample lying between them.
C6_ResultIsLastWindow ==
    (s_pc = "done" /\ s_result # None) => EndsWithRun(samples, STABILITY_CHECKS, s_result)

\* C7: every wait terminates. The number of polls never exceeds the polls that fit in
\* the timeout, every poll that does not return uses up one interval, the loop head
\* can always take a step, and the wait ends with a fingerprint counted
\* STABILITY_CHECKS times or with None once the timeout has elapsed.
C7_WaitTerminates ==
    /\ Len(samples) <= TimeoutPolls
    /\ elapsed <= TimeoutPolls
    /\ s_pc = "loop" => /\ elapsed = Len(samples)
                        /\ (ENABLED StabPoll) \/ (ENABLED StabTimeout)
    /\ s_pc = "done" => /\ s_result # None => stable_count >= STABILITY_CHECKS /\ last_hash = s_result
                        /\ s_result = None => elapsed >= TimeoutPolls /\ Len(samples) = TimeoutPolls

\* C7 witness: a wait that timed out on a renderer that was unreadable at every poll.
C7_Witness ==
    /\ s_pc = "done" /\ s_result = None
    /\ Len(samples) = TimeoutPolls /\ AllEqual(samples, 1, Len(samples), None)

\* C8 (as claimed): with a null prior, a renderer whose fingerprint never changes makes
\* the wait return that fingerprint after STABILITY_CHECKS samples, require_change or not.
C8_NullPriorCountsImmediately ==
    \A h \in Hashes :
        (s_pc = "done" /\ prior = None /\ ConstantRenderer(h))
            => s_result = h /\ Len(samples) = STABILITY_CHECKS

\* C8 (amended): with a null prior and require_change = false a constant renderer makes
\* the wait return its fingerprint after STABILITY_CHECKS samples; with
\* require_change = true the wait takes the fingerprint it samples at its start as the
\* prior, and a constant renderer makes it time out and return None.
C8_NullPriorAmended ==
    \A h \in Hashes :
        (s_pc = "done" /\ prior = None /\ ConstantRenderer(h))
            => IF wait_for_change
                  THEN s_result = None /\ Len(samples) = TimeoutPolls
                  ELSE s_result = h /\ Len(samples) = STABILITY_CHECKS

\* C8 witness: require_change = true, null prior, constant renderer; the wait timed out.
C8_Witness ==
    /\ s_pc = "done" /\ prior = None /\ wait_for_change
    /\ \E h \in Hashes : ConstantRenderer(h)
    /\ s_result = None

\* C9: with require_change = false the returned fingerprint is decided by the samples
\* alone: it is the first fingerprint read STABILITY_CHECKS times in a row (None when
\* there is none before the timeout), so a renderer that keeps showing the prior
\* fingerprint makes the wait return the prior fingerprint itself.
C9_SteadyStateIgnoresPrior ==
    (s_pc = "done" /\ ~wait_for_change) =>
        LET r == Readable(samples) IN
        /\ s_result # None => /\ EndsWithRun(r, STABILITY_CHECKS, s_result)
                              /\ ~HasRun(r, STABILITY_CHECKS, Len(r) - 1)
        /\ s_result = None => ~HasRun(r, STABILITY_CHECKS, Len(r))
        /\ (prior # None /\ AllEqual(samples, 1, Len(samples), prior)) => s_result = prior

\* C9 witness: a steady-state wait returned the prior fingerprint.
C9_Witness ==
    /\ s_pc = "done" /\ ~wait_for_change /\ prior # None
    /\ s_result = prior

\* ========================================================================
\* Properties of the reconciliation filter
\* ========================================================================

\* The print's set code is a member of the (lower-cased) set s.
SetIn(p, s) == p.set_name # NoneStr /\ Lower(p.set_name) \in s

\* The local prints whose set code is not in the effective exclude filter.
PostExcludeList ==
    LET NotExcluded(p) == ~SetIn(p, CurrentExcludeSets(r_cfg, r_card_basic))
    IN  SelectSeq(all_exact_matches, NotExcluded)

CleanCall(k) == a_log[k].ret = "pair" /\ ~a_log[k].failed

C4_SecondPrepareIsCached ==
    \A k \in 1..(call_no - 1) :
        (CleanCall(k) /\ a_log[k + 1].ret = "pair")
            => /\ a_log[k + 1].fetches = 0
               /\ a_log[k + 1].upscales = 0
               /\ a_log[k + 1].url = a_log[k].url

\* ------------------------------------------------------------------------
\* C1: once the renderer session is set up, whatever fails while a card is processed,
\* the run ends only after process_and_capture_card was called for every card.
\* ------------------------------------------------------------------------
C1_EverySubsequentCardAttempted ==
    o_pc \in {"exit_ok", "exit_error"} => card_i = cards_to_process

\* ------------------------------------------------------------------------
\* C2: in upload mode the pre-check decides to write exactly when: no file exists; or
\* overwrite is set; or else an older-than threshold is set and the file's last-modified
\* time is strictly older; or else a newer-than threshold is set and it is strictly
\* newer. Only a print decided "write" is rendered and persisted.
\* ------------------------------------------------------------------------
DecidedWrite ==
    \/ ~exists
    \/ o_cfg.overwrite
    \/ /\ o_cfg.overwrite_older_than_dt # None
       /\ last_modified # None
       /\ last_modified[1] < o_cfg.overwrite_older_than_dt[1]
    \/ /\ o_cfg.overwrite_older_than_dt = None
       /\ o_cfg.overwrite_newer_than_dt # None
       /\ last_modified # None
       /\ last_modified[1] > o_cfg.overwrite_newer_than_dt[1]

C2_WriteSkipDecision ==
    o_cfg.upload_path =>
        /\ o_pc = "prechecked" => (should_skip <=> ~DecidedWrite)
        /\ o_pc \in {"art", "edits", "render_delay", "capture", "captured", "persist",
                    "persisted"} => DecidedWrite

\* An existing file whose timestamp equals the older-than threshold is skipped.
C2_Witness ==
    /\ o_pc = "prechecked"
    /\ o_cfg.upload_path /\ ~o_cfg.overwrite
    /\ exists
    /\ o_cfg.overwrite_older_than_dt # None
    /\ last_modified = o_cfg.overwrite_older_than_dt
    /\ should_skip

\* ------------------------------------------------------------------------
\* C3: the matrix for an existing file with timestamp T (one time unit = 1h).
\* As claimed: overwrite writes; older_than = T+1 skips; older_than = T-1 writes;
\* newer_than = T-1 writes; newer_than = T+1 skips; no flags skips.
\* ------------------------------------------------------------------------
ExistingWithTimestamp ==
    /\ o_pc = "prechecked"
    /\ o_cfg.upload_path
    /\ exists
    /\ last_modified # None

OlderThanIs(d) ==
    /\ ~o_cfg.overwrite
    /\ o_cfg.overwrite_older_than_dt # None
    /\ o_cfg.overwrite_older_than_dt[1] = last_modified[1] + d

NewerThanIs(d) ==
    /\ ~o_cfg.overwrite
    /\ o_cfg.overwrite_newer_than_dt # None
    /\ o_cfg.overwrite_newer_than_dt[1] = last_modified[1] + d

NoFlags ==
    /\ ~o_cfg.overwrite
    /\ o_cfg.overwrite_older_than_dt = None
    /\ o_cfg.overwrite_newer_than_dt = None

C3_MatrixAsClaimed ==
    ExistingWithTimestamp =>
        /\ o_cfg.overwrite => ~should_skip
        /\ OlderThanIs(1) => should_skip
        /\ OlderThanIs(0 - 1) => ~should_skip
        /\ NewerThanIs(0 - 1) => ~should_skip
        /\ NewerThanIs(1) => should_skip
        /\ NoFlags => should_skip

\* C3 (amended): overwrite writes; older_than = T+1 writes; older_than = T-1 skips;
\* newer_than = T-1 writes; newer_than = T+1 skips; no flags skips.
C3_MatrixAmended ==
    ExistingWithTimestamp =>
        /\ o_cfg.overwrite => ~should_skip
        /\ OlderThanIs(1) => ~should_skip
        /\ OlderThanIs(0 - 1) => should_skip
        /\ NewerThanIs(0 - 1) => ~should_skip
        /\ NewerThanIs(1) => should_skip
        /\ NoFlags => should_skip

\* An existing file one hour older than the older-than threshold is written.
C3_Witness ==
    /\ ExistingWithTimestamp
    /\ OlderThanIs(1)
    /\ ~should_skip

\* ------------------------------------------------------------------------
\* C11: an option that is kept has a text that begins with the card name (compared
\* without regard to case) followed by the end of the text or by a space and "("; an
\* option that merely has the card name as a prefix is not kept.
\* ------------------------------------------------------------------------
NameThenEndOrParen(text, name) ==
    /\ Len(text) >= Len(name)
    /\ \A i \in 1..Len(name) : LowerChar(text[i]) = LowerChar(name[i])
    /\ \/ Len(text) = Len(name)
       \/ /\ Len(text) >= Len(name) + 2
          /\ text[Len(name) + 1] = " "
          /\ text[Len(name) + 2] = "("

C11_KeptOptionsAreExactMatches ==
    (g_pc = "done" /\ g_appended) => NameThenEndOrParen(g_option_text, g_card_name)

\* "a a" for the card "a": the name is a mere prefix and the option is passed over.
C11_Witness ==
    /\ g_pc = "done"
    /\ ~g_appended
    /\ Len(g_option_text) > Len(g_card_name)
    /\ SubSeq(g_option_text, 1, Len(g_card_name)) = g_card_name
    /\ g_option_text[Len(g_card_name) + 1] = " "

\* ------------------------------------------------------------------------
\* C12: no print returned by the filter, with or without the fallback, has a set name
\* that is, ignoring case, a member of the exclude sets in force.
\* ------------------------------------------------------------------------
C12_NoExcludedPrintReturned ==
    (r_pc = "returned" /\ r_mode = "normal") =>
        \A i \in DOMAIN r_prints :
            r_prints[i].set_name = NoneStr
            \/ Lower(r_prints[i].set_name) \notin CurrentExcludeSets(r_cfg, r_card_basic)

\* The fallback was taken and an excluded print had been among the matches.
C12_Witness ==
    /\ r_pc = "returned"
    /\ r_mode = "normal"
    /\ r_fallback
    /\ r_prints # <<>>
    /\ \E i \in DOMAIN all_exact_matches :
          /\ all_exact_matches[i].set_name # NoneStr
          /\ Lower(all_exact_matches[i].set_name) \in CurrentExcludeSets(r_cfg, r_card_basic)

\* ------------------------------------------------------------------------
\* Selection: helpers
\* ------------------------------------------------------------------------
LocalMode == sel_cfg.card_selection_strategy = "cardconjurer"
CrossReferenceMode == sel_cfg.card_selection_strategy = "scryfall"
RangeOf(seq) == { seq[i] : i \in DOMAIN seq }

\* The positions a policy may take its representative from, on a newest-first list.
RepresentativePositions(list, policy) ==
    IF policy = "latest" THEN {1}
    ELSE IF policy = "earliest" THEN {Len(list)}
    ELSE DOMAIN list

\* Every print of the list that shares the set of rep, in the order of the list.
SharingSet(list, rep) ==
    LET Same(p) == p.set_name = rep.set_name
    IN  SelectSeq(list, Same)

\* ------------------------------------------------------------------------
\* C13: in local mode without fallback, under latest, earliest or random, the prints to
\* capture are all the filtered prints that share the set of the representative (stated
\* for prints that all carry a set name).
\* ------------------------------------------------------------------------
C13_RepresentativeExpandsToItsSet ==
    (/\ sel_pc = "capture_loop"
     /\ LocalMode
     /\ ~sel_failed_cc
     /\ \A i \in DOMAIN sel_cc_prints : sel_cc_prints[i].set_name # NoneStr
     /\ sel_cfg.set_selection_strategy \in {"latest", "earliest", "random"})
        => \E i \in RepresentativePositions(sel_cc_prints, sel_cfg.set_selection_strategy) :
              sel_capture = SharingSet(sel_cc_prints, sel_cc_prints[i])

\* ------------------------------------------------------------------------
\* C14: on the local print list 'latest' takes the first and 'earliest' the last
\* element; on the prints matched from the external results 'latest' takes the last
\* and 'earliest' the first.
\* ------------------------------------------------------------------------
OnLocalList == LocalMode \/ (CrossReferenceMode /\ matched_prints = <<>>)
PolicyInForce ==
    IF LocalMode THEN selection_strategy
    ELSE IF matched_prints = <<>> THEN sel_cfg.no_match_selection
    ELSE selection_strategy

C14_IndexConventionBySource ==
    sel_pc = "capture_loop" =>
        /\ (OnLocalList /\ PolicyInForce = "latest")
              => sel_capture = <<sel_cc_prints[1]>>
        /\ (OnLocalList /\ PolicyInForce = "earliest")
              => sel_capture = <<sel_cc_prints[Len(sel_cc_prints)]>>
        /\ (~OnLocalList /\ PolicyInForce = "latest")
              => sel_capture = <<matched_prints[Len(matched_prints)]>>
        /\ (~OnLocalList /\ PolicyInForce = "earliest")
              => sel_capture = <<matched_prints[1]>>

\* Two different prints were matched and 'latest' took the last of them.
C14_Witness ==
    /\ sel_pc = "capture_loop"
    /\ CrossReferenceMode
    /\ Len(matched_prints) >= 2
    /\ matched_prints[1] # matched_prints[Len(matched_prints)]
    /\ selection_strategy = "latest"
    /\ sel_capture = <<matched_prints[Len(matched_prints)]>>

\* ------------------------------------------------------------------------
\* C15: per card the external search is queried at most twice; a second query is sent
\* only after the first returned nothing, carries no set filters, and carries
\* prefer:newest under the no-match policy 'latest' and prefer:oldest under 'earliest'.
\* ------------------------------------------------------------------------
C15_AtMostTwoQueries ==
    /\ Len(scryfall_queries) <= 2
    /\ scryfall_queries # <<>> => CrossReferenceMode
    /\ Len(scryfall_queries) = 2 =>
          /\ scryfall_queries[1].results = 0
          /\ ~scryfall_queries[2].set_filters
          /\ sel_cfg.no_match_selection = "latest" => scryfall_queries[2].prefer = "newest"
          /\ sel_cfg.no_match_selection = "earliest" => scryfall_queries[2].prefer = "oldest"

\* Set filters are configured, the first query found nothing, the second went out.
C15_Witness ==
    /\ Len(scryfall_queries) = 2
    /\ sel_cfg.set_filters
    /\ scryfall_queries[1].set_filters
    /\ sel_cfg.no_match_selection = "latest"
    /\ scryfall_queries[2].prefer = "newest"

\* ------------------------------------------------------------------------
\* C16: in cross-reference mode (no-match policy other than 'skip'), when the card is
\* done and no external record matched a local print, the prints to capture are the
\* no-match policy applied to the local prints: non-empty when the local list is.
\* ------------------------------------------------------------------------
C16_MissFallsBackToLocalPrints ==
    (/\ sel_pc \in {"returned", "capture_loop"}
     /\ CrossReferenceMode
     /\ sel_cfg.no_match_selection # "skip"
     /\ matched_prints = <<>>
     /\ sel_cc_prints # <<>>)
        => /\ sel_pc = "capture_loop"
           /\ sel_capture # <<>>
           /\ \E k \in Choices(sel_cc_prints) :
                 sel_capture = SelectPrintsFromCandidate(sel_cc_prints,
                                                         sel_cfg.no_match_selection, k)

\* ------------------------------------------------------------------------
\* C17: once the external records are matched, every local print that is a print of
\* the illustration of some returned record is among the matched prints.
\* ------------------------------------------------------------------------
IsPrintOf(p, rec) ==
    /\ p.set_name # NoneStr
    /\ Lower(p.set_name) = rec.set
    /\ p.collector_number = rec.collector_number

C17_SharedIllustrationIsMatched ==
    (sel_pc \in {"matched", "final_check", "capture_loop"} /\ CrossReferenceMode) =>
        \A j \in DOMAIN scryfall_results :
            \A rec \in ExternalRecords :
                rec.illustration_id = scryfall_results[j].illustration_id =>
                    \A i \in DOMAIN sel_cc_prints :
                        IsPrintOf(sel_cc_prints[i], rec)
                            => sel_cc_prints[i] \in RangeOf(matched_prints)

\* ------------------------------------------------------------------------
\* C18: the prints to capture contain no print twice.
\* ------------------------------------------------------------------------
C18_NoPrintTwice ==
    sel_pc = "capture_loop" =>
        \A i, j \in DOMAIN sel_capture : i # j => sel_capture[i] # sel_capture[j]

\* ------------------------------------------------------------------------
\* C19: under the no-match policy 'skip', a card that would need a fallback (include
\* filter failed in local mode; first external query empty, or nothing matched, in
\* cross-reference mode) never gets prints to capture and never reaches the capture loop.
\* ------------------------------------------------------------------------
FallbackNeeded ==
    \/ LocalMode /\ sel_failed_cc
    \/ CrossReferenceMode /\ scryfall_queries # <<>> /\ scryfall_queries[1].results = 0
    \/ /\ CrossReferenceMode
       /\ sel_pc \in {"matched", "final_check", "capture_loop", "returned"}
       /\ matched_prints = <<>>

C19_SkipPolicySkipsTheCard ==
    (sel_cfg.no_match_selection = "skip" /\ FallbackNeeded) =>
        /\ sel_pc \notin {"fallback_query", "final_check", "capture_loop"}
        /\ sel_capture = <<>>

\* External records were found, none matched the (non-empty) local prints, card skipped.
C19_Witness ==
    /\ sel_pc = "returned"
    /\ CrossReferenceMode
    /\ sel_cfg.no_match_selection = "skip"
    /\ scryfall_results # <<>>
    /\ matched_prints = <<>>
    /\ sel_cc_prints # <<>>

\* ------------------------------------------------------------------------
\* C20: a prepare call that got its art_crop URL and then failed returns a pair whose
\* URL is None (which the caller unpacks and answers with default art).
\* ------------------------------------------------------------------------
C20_FetchFailureReturnsNonePair ==
    \A k \in DOMAIN a_log :
        (a_log[k].lookup_ok /\ a_log[k].ret \notin {"pending", "pair"})
            => (a_log[k].ret = "none_pair" /\ a_log[k].url = None)

\* ------------------------------------------------------------------------
\* C21: the URL a prepare call resolves to is the upscaled URL when an upscaled asset was
\* found by the probe or produced by the upscaler, otherwise the hosted original URL when
\* there is one, otherwise the raw art_crop URL of the external service.
\* ------------------------------------------------------------------------
C21_ResolvedUrlPreference ==
    (a_pc = "returned" /\ call_no > 0 /\ a_log[call_no].ret = "pair") =>
        LET url == a_log[call_no].url
        IN  /\ hosted_upscaled_art_url # None =>
                   url = hosted_upscaled_art_url /\ url[2] = "upscaled"
            /\ (hosted_upscaled_art_url = None /\ hosted_original_art_url # None) =>
                   url = hosted_original_art_url /\ url[2] = "original"
            /\ (hosted_upscaled_art_url = None /\ hosted_original_art_url = None) =>
                   url = ArtCropUrl

\* A call returned the upscaled URL although a hosted original exists too.
C21_Witness ==
    /\ a_pc = "returned" /\ call_no > 0 /\ a_log[call_no].ret = "pair"
    /\ hosted_upscaled_art_url # None /\ hosted_original_art_url # None
    /\ a_log[call_no].url[2] = "upscaled"

\* ------------------------------------------------------------------------
\* C22: a persist of an art asset has one destination: the local directory when
\* download_dir is configured (an image server being configured too changes nothing),
\* otherwise the image server; no persist writes to both. The stores start empty, so
\* what they hold is what the persists of the calls wrote.
\* ------------------------------------------------------------------------
C22_OneDestinationPerPersist ==
    /\ a_cfg.download_dir => server_files = {}
    /\ ~a_cfg.download_dir => local_files = {}

\* Both destinations are configured and an asset was persisted: it is in the local directory.
C22_Witness ==
    /\ a_cfg.download_dir /\ a_cfg.image_server_url
    /\ local_files # {} /\ server_files = {}

PersistIssued == \E i \in DOMAIN steps : steps[i].step = "persist"

C24_PersistOnlyAfterValidCapture ==
    (o_pc \in {"persist", "persisted"} \/ persisted # "none" \/ PersistIssued) =>
        /\ data_url = "data:image/png;base64,"
        /\ \E i \in DOMAIN steps : steps[i].step = "capture" /\ steps[i].print = print_i

\* The capture of a print was valid and its bytes were written.
C24_Witness ==
    /\ o_pc = "persisted" /\ persisted = "saved" /\ PersistIssued
    /\ data_url = "data:image/png;base64,"

\* ------------------------------------------------------------------------
\* C25: for each card the search comes once, before any print is handled, and the steps
\* of a print come in the order select print, apply art, apply field edits, stabilize,
\* capture, persist; a print's steps are over before the next print is selected.
\* ------------------------------------------------------------------------
ClaimedOrder == <<"select", "art", "edits", "stabilize", "capture", "persist">>

InCaptureLoop ==
    o_pc \in {"precheck", "prechecked", "art", "edits", "render_delay", "capture", "captured",
              "persist", "persisted"}

C25_StepsInClaimedOrder ==
    /\ InCaptureLoop => steps # <<>>
    /\ steps # <<>> =>
          /\ steps[1].step = "search"
          /\ Len(steps) - 1 <= Len(ClaimedOrder)
          /\ \A i \in 2..Len(steps) :
                steps[i].step = ClaimedOrder[i - 1] /\ steps[i].print = print_i

\* ------------------------------------------------------------------------
\* C26: every print-selection command of the capture loop is followed by a stabilization
\* wait before the art step of that print begins.
\* ------------------------------------------------------------------------
C26_SelectFollowedByWait ==
    \A i \in DOMAIN steps :
        (steps[i].step = "select" /\ o_pc # "art") => steps[i].wait

\* ------------------------------------------------------------------------
\* C27: a text-field edit is idempotent: a tag the field already carries is replaced, so
\* the text after two applications of the same edit is the text after one.
\* ------------------------------------------------------------------------
C27_TextEditIsIdempotent ==
    (t_pc = "editing" /\ t_applied >= 2) => current_text = t_first

\* ------------------------------------------------------------------------
\* C28: the output filename of a print is the normalized card name, "_", the normalized
\* set code or "unknown-set" when the print has no set code, "_", the normalized collector
\* number or "no-num" when it has none, and ".png".
\* ------------------------------------------------------------------------
C28_FilenameFormat ==
    n_pc = "named" =>
        LET set_part == IF print_data.set_name = None THEN UnknownSet
                        ELSE GenerateSafeFilename(print_data.set_name)
            num_part == IF print_data.collector_number = None THEN NoNum
                        ELSE GenerateSafeFilename(print_data.collector_number)
        IN  filename = GenerateSafeFilename(print_data.card_name) \o <<"_">> \o set_part
                       \o <<"_">> \o num_part \o <<".png">>

\* A print without a set code but with a collector number has been named.
C28_Witness ==
    /\ n_pc = "named"
    /\ print_data.set_name = None /\ print_data.collector_number = <<"1", "/", "A">>
    /\ filename = <<"a", "a", "_">> \o UnknownSet \o <<"_", "1", "-", "a", ".png">>

\* ------------------------------------------------------------------------
\* C29: the normalization is idempotent: normalizing its own result changes nothing,
\* also for strings with compatibility characters that decompose to an apostrophe, a
\* comma or a separator.
\* ------------------------------------------------------------------------
C29_NormalizeIsIdempotent ==
    n_pc = "normalized" => safe_again = safe

\* ------------------------------------------------------------------------
\* C30: the result of the normalization has no upper-case letter, no apostrophe, no
\* comma, no whitespace or path-unsafe character, no two hyphens in a row, and no hyphen
\* at either end.
\* ------------------------------------------------------------------------
C30_NormalizedShape ==
    n_pc = "normalized" =>
        /\ \A i \in DOMAIN safe : safe[i] \notin {"A", "'", ","} \cup UnsafeChars
        /\ \A i \in 1..(Len(safe) - 1) : ~(safe[i] = "-" /\ safe[i + 1] = "-")
        /\ safe # <<>> => (safe[1] # "-" /\ safe[Len(safe)] # "-")

\* ========================================================================
\* Properties of the print search
\* ========================================================================

\* The attempts of the call that ended without an exact match.
FailedOutcomes == {"timeout", "no_match"}
FailedAttempts == { i \in 1..Len(q_log) : q_log[i] \in FailedOutcomes }

\* C31: the print search is attempted at most 3 times per call; an attempt is
\* made again only after a timeout or a search without an exact match, so the
\* first attempt with an exact match is the last one; and after the third failed
\* attempt the call returns the empty list with fallback = FALSE, which it
\* returns in no other case.
C31_SearchAtMostThreeAttempts ==
    /\ Len(q_log) <= 3
    /\ \A i \in 1..Len(q_log) : i < Len(q_log) => q_log[i] \in FailedOutcomes
    /\ (Len(q_log) < 3 /\ FailedAttempts = 1..Len(q_log)) => q_pc \in {"idle", "loop"}
    /\ (Len(q_log) = 3 /\ FailedAttempts = 1..3) =>
          /\ q_pc = "returned"
          /\ q_ret = EmptyReturn
    /\ q_pc = "returned" => /\ FailedAttempts = 1..3
                            /\ q_ret = EmptyReturn
    /\ q_pc = "filter" => /\ q_log[Len(q_log)] = "match"
                          /\ q_matches # <<>>
                          /\ q_ret = None

\* A call whose three attempts all failed, one of them by a timeout and one
\* without an exact match, has returned.
C31_Witness ==
    /\ q_pc = "returned"
    /\ Len(q_log) = 3
    /\ q_log[1] = "timeout"
    /\ q_log[2] = "no_match"
    /\ q_ret = EmptyReturn

\* ========================================================================
\* Properties of the capture loop's overwrite pre-check and persist step
\* ========================================================================

\* C32: without an upload path the overwrite policy is not evaluated: no print is
\* ever marked to be skipped, whatever the overwrite flags are and whether or not
\* the output file is there, and every valid capture goes on to the persist step,
\* which writes the file.
C32_LocalSaveIgnoresOverwritePolicy ==
    [][ ~o_cfg.upload_path =>
          /\ ~should_skip'
          /\ ~exists' /\ last_modified' = None
          /\ (o_pc = "captured" /\ data_url = "data:image/png;base64,") =>
                /\ o_pc' = "persist"
                /\ print_i' = print_i
          /\ o_pc = "persist" =>
                /\ o_pc' = "persisted"
                /\ persisted' \in {"saved", "failed"}
                /\ steps'[Len(steps')] = [step |-> "persist", print |-> print_i,
                                         wait |-> FALSE] ]_vars

\* Local save mode with no overwrite flag: the output file was there and has been
\* written again.
C32_Witness ==
    /\ ~o_cfg.upload_path
    /\ ~o_cfg.overwrite
    /\ o_cfg.overwrite_older_than_dt = None
    /\ o_cfg.overwrite_newer_than_dt = None
    /\ output_present
    /\ persisted = "saved"

\* The steps issued for the current print: renderer commands (select, art, edits,
\* render_delay, capture), the asset pipeline call (art) and the store write
\* (persist).
StepsOfCurrentPrint == { i \in 1..Len(steps) : steps[i].print = print_i /\ print_i > 0 }

\* C35: a print the overwrite policy skips gets no step at all: nothing is
\* selected, loaded, edited, read or written for it, and the next step of the
\* loop is the pre-check of the next print or the end of the card.
C35_SkippedPrintHasNoEffect ==
    [][ should_skip =>
          /\ o_pc = "prechecked"
          /\ StepsOfCurrentPrint = {}
          /\ persisted = "none"
          /\ data_url = NoneStr
          /\ \/ /\ o_pc' = "precheck"
                /\ print_i' = print_i + 1
                /\ steps' = steps
             \/ /\ o_pc' = "main_loop"
                /\ print_i = prints_to_capture ]_vars

\* A print is skipped and another print of the card follows.
C35_Witness ==
    /\ should_skip
    /\ o_pc = "prechecked"
    /\ print_i < prints_to_capture
    /\ Len(steps) = 1

\* C36: with no overwrite flag set, an output file that is on the remote store is
\* never written again: no persist step is issued for its print, whatever the
\* existence check answered (200, another status, or a network error).
C36_ExistingRemoteFileNeverOverwritten ==
    (o_cfg.upload_path /\ NoFlags /\ output_present) =>
        /\ o_pc \notin {"persist", "persisted"}
        /\ persisted # "saved"

\* ========================================================================
\* Properties of the project file editor
\* ========================================================================

\* C34: apply_edits applied twice with the same arguments leaves the project data
\* as one application left it.
C34_ApplyEditsIsIdempotent ==
    f_pc = "edited_twice" => f_twice = f_once

\* ========================================================================
\* Properties of the asset pipeline's probes and persists
\* ========================================================================

\* The assets of a stage that a call handed to _save_or_upload_image.
PersistsOf(c, stage) == { i \in DOMAIN c.persists : c.persists[i][1] = stage }

\* C33: within one prepare call every mutation comes after a cache miss of its
\* stage. The probe of the original asks for the candidate extensions in order and
\* stops at the first one found; the original is stored, once, only by a call
\* whose probe found none of them; the upscaler is invoked at most once per call
\* and only when the probe of the upscaled asset has just missed, and only such an
\* invocation stores an upscaled asset.
C33_MutationOnlyAfterCacheMiss ==
    [][ (call_no > 0 /\ call_no' = call_no) =>
          LET c == a_log[call_no]
              d == a_log'[call_no]
              exts == PossibleExtensions(InitialExtGuess)
          IN  /\ d.probed # c.probed =>
                    /\ a_pc = "probe"
                    /\ c.probed = <<>> /\ c.persists = <<>> /\ c.upscales = 0
                    /\ d.probed = SubSeq(exts, 1, Len(d.probed))
                    /\ \A i \in 1..(Len(d.probed) - 1) :
                          ~ProbeHit(a_cfg, server_files, local_files, "original", exts[i])
                    /\ IF d.found = NoneStr
                          THEN /\ d.probed = exts
                               /\ ~ProbeHit(a_cfg, server_files, local_files, "original",
                                            exts[Len(exts)])
                          ELSE /\ d.probed[Len(d.probed)] = d.found
                               /\ ProbeHit(a_cfg, server_files, local_files, "original",
                                           d.found)
              /\ PersistsOf(d, "original") # PersistsOf(c, "original") =>
                    /\ a_pc = "fetch"
                    /\ c.probed = exts /\ c.found = NoneStr
                    /\ PersistsOf(c, "original") = {}
                    /\ Cardinality(PersistsOf(d, "original")) = 1
              /\ d.upscales # c.upscales =>
                    /\ a_pc = "upscale"
                    /\ c.upscales = 0 /\ d.upscales = 1
                    /\ c.up_probe = "none" /\ d.up_probe = "miss"
                    /\ ~ProbeHit(a_cfg, server_files, local_files, "upscaled", ".png")
              /\ PersistsOf(d, "upscaled") # PersistsOf(c, "upscaled") =>
                    /\ d.upscales = c.upscales + 1
                    /\ Cardinality(PersistsOf(d, "upscaled")) = 1
              /\ (server_files' # server_files \/ local_files' # local_files) =>
                    d.persists # c.persists ]_vars

\* A second call whose probe missed .jpg, found the .png the first call stored
\* and stopped there; it stored no original and, after a miss of the upscaled
\* probe, invoked the upscaler once.
C33_Witness ==
    /\ a_pc = "returned"
    /\ call_no = 2
    /\ a_log[1].persists # <<>>
    /\ a_log[2].probed = <<".jpg", ".png">>
    /\ a_log[2].found = ".png"
    /\ PersistsOf(a_log[2], "original") = {}
    /\ a_log[2].upscales = 1
    /\ a_log[2].up_probe = "miss"

\* C37: when prepare returns a hosted URL (not the raw external URL), the store
\* holds an asset under that URL's key at the return: a persist that failed never
\* yields a hosted URL.
C37_HostedUrlIsBacked ==
    (a_pc = "returned" /\ call_no > 0 /\ a_log[call_no].ret = "pair"
        /\ a_log[call_no].url # ArtCropUrl) =>
        ProbeHit(a_cfg, server_files, local_files,
                 a_log[call_no].url[2], a_log[call_no].url[3])

\* The existence probe of a later call finds the asset stored under key: an
\* original under one of the candidate extensions, an upscaled asset as .png.
FoundByProbe(key) ==
    IF key[1] = "original"
       THEN /\ \E i \in DOMAIN PossibleExtensions(InitialExtGuess) :
                  PossibleExtensions(InitialExtGuess)[i] = key[2]
            /\ ProbeHit(a_cfg, server_files, local_files, "original", key[2])
       ELSE /\ key[2] = ".png"
            /\ ProbeHit(a_cfg, server_files, local_files, "upscaled", ".png")

\* C38: every asset prepare has stored, original or upscaled and under whatever
\* extension was detected, is found by the existence probe of its stage in a
\* later call for the same card, set, number and configuration.
C38_PersistedAssetIsFoundLater ==
    \A key \in server_files \cup local_files : FoundByProbe(key)

\* ========================================================================
\* Properties of the cross-reference matching
\* ========================================================================

\* A local print without set code and collector number.
NoSetInfo(p) == p.set_name = NoneStr

\* C39: in cross-reference mode a local print without set code or collector
\* number matches no external record and does not make the card's processing
\* fail: the matching completes, and its result holds exactly the first local
\* match of every external record among the prints that carry set information.
C39_PrintWithoutSetInfoIsHarmless ==
    [][ (CrossReferenceMode /\ sel_pc = "match"
            /\ \E i \in DOMAIN sel_cc_prints : NoSetInfo(sel_cc_prints[i])) =>
          /\ sel_pc' = "matched"
          /\ \A i \in DOMAIN matched_prints' : ~NoSetInfo(matched_prints'[i])
          /\ LET NotNoSetInfo(p) == ~NoSetInfo(p)
             IN  matched_prints' =
                     MatchLoop(scryfall_results, SelectSeq(sel_cc_prints, NotNoSetInfo),
                               1, <<>>).matched ]_vars

\* ========================================================================
\* Properties of the fingerprint carried between waits
\* ========================================================================

\* C40: the carried fingerprint changes only when a wait returns, and then to the
\* value the wait returned: the stable fingerprint on success, None on a timeout;
\* every wait takes the carried fingerprint as its prior. So a wait that requires
\* a change and follows a timed-out wait starts from the prior None, takes the
\* fingerprint it samples at its entry as initial_hash, and never returns that
\* fingerprint.
C40_CarriedFingerprintIsLastResult ==
    [][ /\ IF s_pc = "done"
              THEN /\ current_canvas_hash' = s_result
                   /\ stable_count >= STABILITY_CHECKS => current_canvas_hash' = last_hash
                   /\ stable_count < STABILITY_CHECKS => current_canvas_hash' = None
              ELSE current_canvas_hash' = current_canvas_hash
        /\ s_pc = "idle" => prior' = current_canvas_hash
        /\ last_wait = "timeout" => current_canvas_hash = None
        /\ (last_wait = "timeout" /\ wait_for_change /\ s_pc \in {"loop", "done"}) =>
              /\ prior = None
              /\ initial_hash = entry_hash
              /\ entry_hash # None => s_result # entry_hash ]_vars

\* A wait that requires a change, made after a timed-out wait, sampled a readable
\* fingerprint at its entry, saw nothing but that fingerprint, timed out, and the
\* carried fingerprint is None again.
C40_Witness ==
    /\ last_wait = "timeout"
    /\ s_pc = "idle"
    /\ wait_for_change
    /\ prior = None
    /\ entry_hash # None
    /\ Len(samples) = TimeoutPolls
    /\ \A i \in DOMAIN samples : samples[i] = entry_hash
    /\ s_result = None
    /\ current_canvas_hash = None

====
